---- MODULE Spec2Model ----
(***************************************************************************)
(* A model of threeML's Bayesian sampler base classes                      *)
(* (threeML/bayesian/sampler_base.py) and of the background polynomial     *)
(* fitter of the Fermi GBM TTE plugin (threeML/plugins/FermiGBM_TTE_Like). *)
(***************************************************************************)
EXTENDS Integers, Sequences, FiniteSets, TLC

(***************************************************************************)
(* Bounds of the model.                                                    *)
(***************************************************************************)
\* parameter values and trial values range over 0..MaxVal
MaxVal == 2
\* largest finite magnitude of the modelled floating-point numbers
FMax == 8

\* the calls made on one Polynomial
MaxCalls == 2
\* most rows (draws) of a raw sample matrix
MaxRows == 2
\* most bins of the x and y handed to the polynomial fitter
MaxBins == 4

Vals == 0..MaxVal

\* the parameters of a likelihood model (a power law), in the model's order
ParamOrder == <<"K", "index">>
Params == {ParamOrder[i] : i \in 1..Len(ParamOrder)}

(***************************************************************************)
(* Floating-point numbers.  A float is finite (an integer of magnitude at  *)
(* most FMax; above FMax \div 2 only the even ones are representable, so   *)
(* additions round), NaN, +inf or -inf.                                    *)
(***************************************************************************)
Fin(n) == [k |-> "fin", v |-> n]
NaN == [k |-> "nan", v |-> 0]
PosInf == [k |-> "pinf", v |-> 0]
NegInf == [k |-> "ninf", v |-> 0]

Abs(n) == IF n < 0 THEN -n ELSE n

Representable(n) == Abs(n) <= FMax /\ (Abs(n) <= FMax \div 2 \/ n % 2 = 0)

\* round-to-nearest, ties to the neighbour divisible by 4, overflow to +-inf
Round(n) ==
  IF Abs(n) > FMax THEN (IF n > 0 THEN PosInf ELSE NegInf)
  ELSE IF Representable(n) THEN Fin(n)
  ELSE IF (n + 1) % 4 = 0 /\ Abs(n + 1) <= FMax THEN Fin(n + 1)
  ELSE IF Abs(n - 1) <= FMax /\ ((n - 1) % 4 = 0 \/ Abs(n + 1) > FMax) THEN Fin(n - 1)
  ELSE Fin(n + 1)

\* IEEE addition
FAdd(a, b) ==
  IF a.k = "nan" \/ b.k = "nan" THEN NaN
  ELSE IF a.k = "fin" /\ b.k = "fin" THEN Round(a.v + b.v)
  ELSE IF a.k = "fin" THEN b
  ELSE IF b.k = "fin" THEN a
  ELSE IF a.k = b.k THEN a
  ELSE NaN

\* numpy.isfinite
isfinite(f) == f.k = "fin"

(***************************************************************************)
(* State.                                                                  *)
(***************************************************************************)
VARIABLES
  prior,        \* the likelihood models' parameters: kind of prior of each
  free,         \* ... whether each is free
  value,        \* ... each one's live value
  ext,          \* ... the external (nuisance) parameters added to each model
  dsModel,      \* the model each dataset was bound to by set_model
  s_model,      \* SamplerBase._likelihood_model
  s_data,       \* SamplerBase._data_list, in its order
  s_registered, \* SamplerBase._is_registered
  s_free,       \* SamplerBase._free_parameters, in its order
  closure,      \* the closures _construct_unitcube_posterior last returned
  s_raw_samples,            \* SamplerBase._raw_samples
  s_log_probability_values, \* SamplerBase._log_probability_values
  s_marginal_likelihood,    \* SamplerBase._marginal_likelihood
  s_samples,                \* SamplerBase._samples
  s_results,                \* SamplerBase._results
  ret,          \* the last call on the sampler and its outcome
  pf,           \* the arguments of FermiGBMLike._polyfit and what it last did
  fg,           \* the fits of _fitGlobalAndDetermineOptimumGrade and its answer
  cash,         \* the x and y of a BkgLogLikelihood and its last call
  cm,           \* the arguments of computeCovarianceMatrix and what it did
  poly,         \* a Polynomial and the last call on it
  th            \* the threads inside get_posterior: the position and the locals of each

\* the products of a sampling run
chain == <<s_raw_samples, s_log_probability_values, s_marginal_likelihood, s_samples,
           s_results>>

\* the sampler, its model and its datasets
sampler == <<prior, free, value, ext, dsModel, s_model, s_data, s_registered, s_free,
             closure, chain, ret>>

\* the background fitter of the GBM plugin, and the threads
fitter == <<pf, fg, cash, cm, poly, th>>

vars == <<sampler, fitter>>

(***************************************************************************)
(* The collaborators: parameters with priors, and datasets.                *)
(***************************************************************************)
Models == {"m1", "m2"}
PriorKinds == {"uniform", "peak", "nocube"}

\* Parameter.has_prior()
has_prior(kind) == kind # "none"

\* parameter.prior(v): the density at v, in tenths (1 is 0.1, 10 is 1.0,
\* 100 is 10.0); 0 outside the support.  A value v stands for 5 v: "uniform"
\* is uniform on [0, 10], "peak" and "nocube" are stepped densities, and
\* "nocube" is a prior without a from_unit_cube method.
PriorDensity(kind, v) ==
  CASE kind = "uniform" -> IF v <= 2 THEN 1 ELSE 0
    [] kind = "peak" -> IF v = 1 THEN 100 ELSE IF v = 2 THEN 10 ELSE 0
    [] kind = "nocube" -> IF v >= 1 THEN 10 ELSE 0
    [] OTHER -> 0

\* whether the prior has a from_unit_cube method
has_from_unit_cube(kind) == kind \in {"uniform", "peak"}

\* the coordinates of the unit cube, in halves: 0 and 0.5
CubeVals == {0, 1}

\* parameter.prior.from_unit_cube(u)
from_unit_cube(kind, u) == IF kind = "uniform" THEN u ELSE 1 + u

\* math.log10 of a density given in tenths
log10(tenths) ==
  CASE tenths = 1 -> Fin(-1)
    [] tenths = 10 -> Fin(0)
    [] tenths = 100 -> Fin(1)

\* the datasets a data list is drawn from; D is a plugin with a nuisance
\* parameter that does not carry the instance name
DS == {"A", "B", "C", "D"}

\* dataset.name, a string
DsName(d) ==
  CASE d = "A" -> <<"a">> [] d = "B" -> <<"b">> [] d = "C" -> <<"c">> [] d = "D" -> <<"d">>

Nuisance(name, isfree, kind) == [name |-> name, free |-> isfree, prior |-> kind]

\* dataset.nuisance_parameters, in the order of its items()
nuisance_parameters(d) ==
  CASE d = "A" -> << Nuisance(<<"k", "_", "a">>, FALSE, "none") >>
    [] d = "B" -> << Nuisance(<<"b", "_", "k">>, FALSE, "uniform"),
                     Nuisance(<<"b", "_", "j">>, FALSE, "none") >>
    [] d = "C" -> << >>
    [] d = "D" -> << Nuisance(<<"d", "_", "k">>, TRUE, "none"),
                     Nuisance(<<"k", "_", "a">>, FALSE, "none"),
                     Nuisance(<<"d", "_", "j">>, FALSE, "none") >>

\* Python's  sub in name  on strings
Contains(name, sub) ==
  \E i \in 1..(Len(name) - Len(sub) + 1) : SubSeq(name, i, i + Len(sub) - 1) = sub

\* what a call returns or raises
Value(f) == [t |-> "value", f |-> f, e |-> "", d |-> ""]
Raise(e, d) == [t |-> "raise", f |-> Fin(0), e |-> e, d |-> d]
None == [t |-> "none", f |-> Fin(0), e |-> "", d |-> ""]

\* the parameter a dataset's likelihood reads
Pivot(d) == IF d = "C" THEN "index" ELSE "K"

\* dataset.get_log_like() with the model's parameters at vals
get_log_like(d, vals) ==
  LET t == vals[Pivot(d)]
      big == FMax \div 2
  IN CASE d = "A" ->
            IF t = 0 THEN Value(NegInf)
            ELSE IF t = 1 THEN Value(Fin(big))
            ELSE IF t = 2 THEN Raise("ModelAssertionViolation", d)
            ELSE Value(Fin(-1))
       [] d = "B" ->
            IF t = 0 THEN Value(Fin(-1))
            ELSE IF t = 1 THEN Value(Fin(2))
            ELSE IF t = 2 THEN Raise("RuntimeError", d)
            ELSE Value(NaN)
       [] d = "C" ->
            IF t = 0 THEN Value(Fin(-big))
            ELSE IF t = 1 THEN Value(Fin(1))
            ELSE IF t = 2 THEN Value(PosInf)
            ELSE Raise("ModelAssertionViolation", d)
       [] d = "D" -> Value(Fin(-t))

\* an entry of the record of what a call did
SetEv(p, v) == [ev |-> "set", p |-> p, d |-> "", v |-> v, n |-> <<>>]
LikeEv(d) == [ev |-> "get_log_like", p |-> "", d |-> d, v |-> 0, n |-> <<>>]
SetModelEv(d) == [ev |-> "set_model", p |-> "", d |-> d, v |-> 0, n |-> <<>>]
AddEv(d, n) == [ev |-> "add_external_parameter", p |-> "", d |-> d, v |-> 0, n |-> n]

(***************************************************************************)
(* SamplerBase: posterior evaluation.                                      *)
(***************************************************************************)
\* the list comprehension of _log_like: the datasets' values in list order, up
\* to the first dataset that raises
RECURSIVE log_like_values(_, _, _, _)
log_like_values(data_list, vals, i, acc) ==
  IF i > Len(data_list) THEN acc
  ELSE LET r == get_log_like(data_list[i], vals)
           log == Append(acc.log, LikeEv(data_list[i]))
       IN IF r.t = "raise"
          THEN [raised |-> r, values |-> acc.values, log |-> log]
          ELSE log_like_values(data_list, vals, i + 1,
                 [raised |-> acc.raised, values |-> Append(acc.values, r.f), log |-> log])

\* a sum that leaves out the last element
np_sum_short(values) ==
  IF values = <<>> THEN Fin(0)
  ELSE LET RECURSIVE upto(_)
           upto(n) == IF n = 0 THEN Fin(0) ELSE FAdd(upto(n - 1), values[n])
       IN upto(Len(values) - 1)

\* numpy.sum of a list: added in list order
RECURSIVE np_sum(_)
np_sum(values) ==
  IF values = <<>> THEN Fin(0)
  ELSE FAdd(np_sum(SubSeq(values, 1, Len(values) - 1)), values[Len(values)])

NotRaised == Value(Fin(0))

\* _log_like with every exception of a dataset converted to -infinity
log_like_catch_all(data_list, vals) ==
  LET r == log_like_values(data_list, vals, 1,
             [raised |-> NotRaised, values |-> <<>>, log |-> <<>>])
      log_like == np_sum(r.values)
  IN IF r.raised.t = "raise" \/ ~isfinite(log_like)
     THEN [out |-> Value(NegInf), log |-> r.log]
     ELSE [out |-> Value(log_like), log |-> r.log]

\* _log_like without the test of the sum
log_like_unchecked(data_list, vals) ==
  LET r == log_like_values(data_list, vals, 1,
             [raised |-> NotRaised, values |-> <<>>, log |-> <<>>])
  IN IF r.raised.t = "raise"
     THEN IF r.raised.e = "ModelAssertionViolation"
          THEN [out |-> Value(NegInf), log |-> r.log]
          ELSE [out |-> r.raised, log |-> r.log]
     ELSE [out |-> Value(np_sum(r.values)), log |-> r.log]

\* SamplerBase._log_like
_log_like(data_list, vals) ==
  LET r == log_like_values(data_list, vals, 1,
             [raised |-> NotRaised, values |-> <<>>, log |-> <<>>])
      log_like == np_sum(r.values)
  IN IF r.raised.t = "raise"
     THEN IF r.raised.e = "ModelAssertionViolation"
          THEN [out |-> Value(NegInf), log |-> r.log]
          ELSE [out |-> r.raised, log |-> r.log]
     ELSE IF ~isfinite(log_like)
          THEN [out |-> Value(NegInf), log |-> r.log]
          ELSE [out |-> Value(log_like), log |-> r.log]

\* the loop of _log_prior over the free parameters
RECURSIVE log_prior_loop(_, _, _, _, _)
log_prior_loop(free_parameters, pri, trial_values, i, acc) ==
  IF i > Len(free_parameters) THEN acc
  ELSE LET p == free_parameters[i]
           prior_value == PriorDensity(pri[p], trial_values[i])
       IN IF prior_value = 0
          THEN [acc EXCEPT !.cut = TRUE]
          ELSE log_prior_loop(free_parameters, pri, trial_values, i + 1,
                 [cut |-> FALSE,
                  vals |-> [acc.vals EXCEPT ![p] = trial_values[i]],
                  log_prior |-> FAdd(acc.log_prior, log10(prior_value)),
                  log |-> Append(acc.log, SetEv(p, trial_values[i]))])

\* SamplerBase._log_prior
_log_prior(free_parameters, pri, vals, trial_values) ==
  LET r == log_prior_loop(free_parameters, pri, trial_values, 1,
             [cut |-> FALSE, vals |-> vals, log_prior |-> Fin(0), log |-> <<>>])
  IN [out |-> IF r.cut THEN Value(NegInf) ELSE Value(r.log_prior),
      vals |-> r.vals, log |-> r.log]

\* the loop of get_posterior with the trial value assigned before the prior
\* is looked at
RECURSIVE posterior_loop_assign_first(_, _, _, _, _)
posterior_loop_assign_first(free_parameters, pri, trial_values, i, acc) ==
  IF i > Len(free_parameters) THEN acc
  ELSE LET p == free_parameters[i]
           prior_value == PriorDensity(pri[p], trial_values[i])
       IN IF prior_value = 0
          THEN [acc EXCEPT !.cut = TRUE, !.vals[p] = trial_values[i]]
          ELSE posterior_loop_assign_first(free_parameters, pri, trial_values, i + 1,
                 [cut |-> FALSE,
                  vals |-> [acc.vals EXCEPT ![p] = trial_values[i]],
                  log_prior |-> FAdd(acc.log_prior, log10(prior_value)),
                  log |-> Append(acc.log, SetEv(p, trial_values[i]))])

\* the loop of get_posterior over the free parameters
RECURSIVE posterior_loop(_, _, _, _, _)
posterior_loop(free_parameters, pri, trial_values, i, acc) ==
  IF i > Len(free_parameters) THEN acc
  ELSE LET p == free_parameters[i]
           prior_value == PriorDensity(pri[p], trial_values[i])
       IN IF prior_value = 0
          THEN [acc EXCEPT !.cut = TRUE]
          ELSE posterior_loop(free_parameters, pri, trial_values, i + 1,
                 [cut |-> FALSE,
                  vals |-> [acc.vals EXCEPT ![p] = trial_values[i]],
                  log_prior |-> FAdd(acc.log_prior, log10(prior_value)),
                  log |-> Append(acc.log, SetEv(p, trial_values[i]))])

\* get_posterior with the likelihood evaluated before the out-of-support return
get_posterior_late_return(free_parameters, data_list, pri, vals, trial_values) ==
  LET r == posterior_loop(free_parameters, pri, trial_values, 1,
             [cut |-> FALSE, vals |-> vals, log_prior |-> Fin(0), log |-> <<>>])
      ll == _log_like(data_list, r.vals)
  IN [out |-> IF r.cut THEN Value(NegInf)
              ELSE IF ll.out.t = "raise" THEN ll.out
              ELSE Value(FAdd(ll.out.f, r.log_prior)),
      vals |-> r.vals, log |-> r.log \o ll.log]

\* the loop of get_posterior with the assignment of the trial value left out
RECURSIVE posterior_loop_unbound(_, _, _, _, _)
posterior_loop_unbound(free_parameters, pri, trial_values, i, acc) ==
  IF i > Len(free_parameters) THEN acc
  ELSE LET p == free_parameters[i]
           prior_value == PriorDensity(pri[p], trial_values[i])
       IN IF prior_value = 0
          THEN [acc EXCEPT !.cut = TRUE]
          ELSE posterior_loop_unbound(free_parameters, pri, trial_values, i + 1,
                 [acc EXCEPT !.log_prior = FAdd(acc.log_prior, log10(prior_value))])

\* get_posterior that does not assign the trial values
get_posterior_unbound(free_parameters, data_list, pri, vals, trial_values) ==
  LET r == posterior_loop_unbound(free_parameters, pri, trial_values, 1,
             [cut |-> FALSE, vals |-> vals, log_prior |-> Fin(0), log |-> <<>>])
      ll == _log_like(data_list, r.vals)
  IN IF r.cut
     THEN [out |-> Value(NegInf), vals |-> r.vals, log |-> r.log]
     ELSE [out |-> IF ll.out.t = "raise" THEN ll.out
                   ELSE Value(FAdd(ll.out.f, r.log_prior)),
           vals |-> r.vals, log |-> r.log \o ll.log]

\* get_posterior with the datasets evaluated before the loop over the free
\* parameters
get_posterior_likelihood_first(free_parameters, data_list, pri, vals, trial_values) ==
  LET r == posterior_loop(free_parameters, pri, trial_values, 1,
             [cut |-> FALSE, vals |-> vals, log_prior |-> Fin(0), log |-> <<>>])
      ll == _log_like(data_list, vals)
  IN IF r.cut
     THEN [out |-> Value(NegInf), vals |-> r.vals, log |-> r.log]
     ELSE [out |-> IF ll.out.t = "raise" THEN ll.out
                   ELSE Value(FAdd(ll.out.f, r.log_prior)),
           vals |-> r.vals, log |-> ll.log \o r.log]

\* SamplerBase.get_posterior
get_posterior(free_parameters, data_list, pri, vals, trial_values) ==
  LET r == posterior_loop(free_parameters, pri, trial_values, 1,
             [cut |-> FALSE, vals |-> vals, log_prior |-> Fin(0), log |-> <<>>])
      ll == _log_like(data_list, r.vals)
  IN IF r.cut
     THEN [out |-> Value(NegInf), vals |-> r.vals, log |-> r.log]
     ELSE [out |-> IF ll.out.t = "raise" THEN ll.out
                   ELSE Value(FAdd(ll.out.f, r.log_prior)),
           vals |-> r.vals, log |-> r.log \o ll.log]

(***************************************************************************)
(* SamplerBase: registration of the model and the data.                    *)
(***************************************************************************)
\* the part of the state registration reads and writes
RegState ==
  [model |-> s_model, data |-> s_data, registered |-> s_registered,
   ext |-> ext, dsModel |-> dsModel]

\* some entry of likelihood_model.free_parameters (the model's own free
\* parameters and its free external ones) has no prior
free_lacks_prior(pri, fr, external) ==
  \/ \E p \in Params : fr[p] /\ ~has_prior(pri[p])
  \/ \E n \in external : n.free /\ ~has_prior(n.prior)

\* the inner loop with the parameter added before its name is verified
RECURSIVE nuisance_loop_add_first(_, _, _, _, _)
nuisance_loop_add_first(st, m, d, j, log) ==
  LET ps == nuisance_parameters(d) IN
  IF j > Len(ps) THEN [st |-> st, log |-> log, failed |-> FALSE]
  ELSE LET added == [st EXCEPT !.ext[m] = @ \cup {ps[j]}]
           logged == Append(log, AddEv(d, ps[j].name))
       IN IF ~Contains(ps[j].name, DsName(d))
          THEN [st |-> added, log |-> logged, failed |-> TRUE]
          ELSE nuisance_loop_add_first(added, m, d, j + 1, logged)

\* the inner loop of _register_model_and_data over one dataset's nuisance
\* parameters, from the j-th on
RECURSIVE nuisance_loop(_, _, _, _, _)
nuisance_loop(st, m, d, j, log) ==
  LET ps == nuisance_parameters(d) IN
  IF j > Len(ps) THEN [st |-> st, log |-> log, failed |-> FALSE]
  ELSE IF ~Contains(ps[j].name, DsName(d))
       THEN [st |-> st, log |-> log, failed |-> TRUE]
       ELSE nuisance_loop([st EXCEPT !.ext[m] = @ \cup {ps[j]}], m, d, j + 1,
                          Append(log, AddEv(d, ps[j].name)))

\* the outer loop of _register_model_and_data over the datasets, from the i-th on
RECURSIVE dataset_loop(_, _, _, _)
dataset_loop(st, m, i, log) ==
  IF i > Len(st.data) THEN [st |-> st, log |-> log, failed |-> FALSE]
  ELSE LET d == st.data[i]
           bound == [st EXCEPT !.dsModel[d] = m]
           r == nuisance_loop(bound, m, d, 1, Append(log, SetModelEv(d)))
       IN IF r.failed THEN r ELSE dataset_loop(r.st, m, i + 1, r.log)

\* _register_model_and_data with the model and the data stored before the
\* priors are verified
register_store_first(st, pri, fr, likelihood_model, data_list) ==
  LET stored == [st EXCEPT !.model = likelihood_model, !.data = data_list]
      r == dataset_loop(stored, likelihood_model, 1, <<>>)
  IN IF free_lacks_prior(pri[likelihood_model], fr[likelihood_model], st.ext[likelihood_model])
     THEN [st |-> stored, out |-> Raise("RuntimeError", ""), log |-> <<>>]
     ELSE IF r.failed
          THEN [st |-> r.st, out |-> Raise("AssertionError", ""), log |-> r.log]
          ELSE [st |-> [r.st EXCEPT !.registered = TRUE], out |-> None, log |-> r.log]

\* _register_model_and_data that leaves everything as it was when it fails
register_all_or_nothing(st, pri, fr, likelihood_model, data_list) ==
  IF free_lacks_prior(pri[likelihood_model], fr[likelihood_model], st.ext[likelihood_model])
  THEN [st |-> st, out |-> Raise("RuntimeError", ""), log |-> <<>>]
  ELSE LET stored == [st EXCEPT !.model = likelihood_model, !.data = data_list]
           r == dataset_loop(stored, likelihood_model, 1, <<>>)
       IN IF r.failed
          THEN [st |-> st, out |-> Raise("AssertionError", ""), log |-> r.log]
          ELSE [st |-> [r.st EXCEPT !.registered = TRUE], out |-> None, log |-> r.log]

\* SamplerBase._register_model_and_data
_register_model_and_data(st, pri, fr, likelihood_model, data_list) ==
  IF free_lacks_prior(pri[likelihood_model], fr[likelihood_model], st.ext[likelihood_model])
  THEN [st |-> st, out |-> Raise("RuntimeError", ""), log |-> <<>>]
  ELSE LET stored == [st EXCEPT !.model = likelihood_model, !.data = data_list]
           r == dataset_loop(stored, likelihood_model, 1, <<>>)
       IN IF r.failed
          THEN [st |-> r.st, out |-> Raise("AssertionError", ""), log |-> r.log]
          ELSE [st |-> [r.st EXCEPT !.registered = TRUE], out |-> None, log |-> r.log]

(***************************************************************************)
(* The calls on the sampler.                                               *)
(***************************************************************************)
\* the data lists over the datasets S: S is a dictionary's values, so the
\* sequences of distinct datasets
DataLists(S) ==
  {dl \in UNION {[1..n -> S] : n \in 0..Cardinality(S)} :
     \A i, j \in 1..Len(dl) : i # j => dl[i] # dl[j]}

\* likelihood_model.free_parameters, in the model's order
free_parameters(fr) == SelectSeq(ParamOrder, LAMBDA p : fr[p])

TrialVectors == [1..Len(s_free) -> Vals]

\* a call: its arguments (x as the call left it; arg as the caller passed it,
\* where the call may overwrite it), what it returned (res, when a vector) or
\* raised, and what it did
Call(op, m, dl, x, out, log) ==
  [op |-> op, m |-> m, dl |-> dl, x |-> x, arg |-> <<>>, res |-> <<>>, out |-> out,
   log |-> log]

NoCall == Call("", "None", <<>>, <<>>, None, <<>>)

\* the fields SamplerBase.__init__ sets to None, and _marginal_likelihood,
\* which it does not set
Unset == [set |-> FALSE, v |-> <<>>]
NoSamples == [set |-> FALSE, keys |-> <<>>, cols |-> <<>>]
NoResults == [set |-> FALSE, log_posteriors |-> <<>>, total_log_posterior |-> Fin(0),
              total_n_data_points |-> 0, n_free |-> 0, samples |-> <<>>, logZ |-> FALSE]

\* no call of _polyfit yet
NoFit ==
  [x |-> <<>>, y |-> <<>>, polGrade |-> 0, out |-> None, initialGuess |-> <<>>,
   polynomial |-> [params |-> <<>>, degree |-> -1, covMatrix |-> <<>>],
   minlogLikelihood |-> Fin(0), ran |-> {}, cov |-> "", caller |-> "", reseeded |-> FALSE]

\* no call of _fitGlobalAndDetermineOptimumGrade yet
NoGrade == [logLikelihoods |-> <<>>, bestGrade |-> -1]

\* no call of a BkgLogLikelihood yet
NoCash == [x |-> <<>>, y |-> <<>>, parameters |-> <<>>, called |-> FALSE, terms |-> <<>>]

\* no call of computeCovarianceMatrix yet
NoCm ==
  [H |-> <<>>, J |-> <<>>, par |-> <<>>, min_step |-> [n |-> 0, d |-> 1, e |-> 0], max_iters |-> 0,
   out |-> None, hess |-> <<>>, cov |-> <<>>, di |-> <<>>, step_size |-> <<>>,
   converged |-> <<>>, iters |-> <<>>, used |-> <<>>]

\* no Polynomial yet
NoPoly ==
  [polynomial |-> NoFit.polynomial, op |-> "", out |-> None, before |-> <<>>,
   succeeded |-> FALSE, calls |-> 0]

\* the threads that may call get_posterior on the one sampler
Threads == {1, 2}

\* a thread that has not called get_posterior: pc is its position, x its
\* trial_values, i the index of its loop, log_prior its local, values the
\* log_like_values it has collected, out what its call returned or raised,
\* foreign whether a dataset it evaluated saw live values other than x
NoThread ==
  [pc |-> "idle", x |-> <<>>, i |-> 0, log_prior |-> Fin(0), values |-> <<>>,
   out |-> None, foreign |-> FALSE]

NoThreads == [t \in Threads |-> NoThread]

\* a fitter that is not used, and no thread
NoFitter ==
  /\ pf = NoFit
  /\ fg = NoGrade
  /\ cash = NoCash
  /\ cm = NoCm
  /\ poly = NoPoly
  /\ th = NoThreads

NoChain ==
  /\ s_raw_samples = Unset
  /\ s_log_probability_values = Unset
  /\ s_marginal_likelihood = "unset"
  /\ s_samples = NoSamples
  /\ s_results = NoResults

\* the sampler as SamplerBase.__init__ leaves it before it registers anything
Fresh(st) == [st EXCEPT !.model = "None", !.data = <<>>, !.registered = FALSE]

Registered(op, r, m, dl) ==
  /\ s_model' = r.st.model
  /\ s_data' = r.st.data
  /\ s_registered' = r.st.registered
  /\ ext' = r.st.ext
  /\ dsModel' = r.st.dsModel
  /\ ret' = Call(op, m, dl, <<>>, r.out, r.log)
  /\ UNCHANGED <<prior, free, value, s_free, closure, chain, fitter>>

\* SamplerBase.set_model_and_data(likelihood_model, data_list)
SetModelAndData(m, dl) ==
  Registered("set_model_and_data",
             _register_model_and_data(RegState, prior, free, m, dl), m, dl)

\* SamplerBase(likelihood_model, data_list): the first call on a sampler
Construct(m, dl) ==
  /\ ret = NoCall
  /\ Registered("__init__",
                _register_model_and_data(Fresh(RegState), prior, free, m, dl), m, dl)

\* sampler.get_posterior(x)
GetPosterior(x) ==
  LET r == get_posterior(s_free, s_data, prior[s_model], value[s_model], x) IN
  /\ s_model # "None"
  /\ value' = [value EXCEPT ![s_model] = r.vals]
  /\ ret' = Call("get_posterior", s_model, s_data, x, r.out, r.log)
  /\ UNCHANGED <<prior, free, ext, dsModel, s_model, s_data, s_registered, s_free, closure, chain, fitter>>

\* sampler._log_prior(x)
LogPrior(x) ==
  LET r == _log_prior(s_free, prior[s_model], value[s_model], x) IN
  /\ s_model # "None"
  /\ value' = [value EXCEPT ![s_model] = r.vals]
  /\ ret' = Call("_log_prior", s_model, s_data, x, r.out, r.log)
  /\ UNCHANGED <<prior, free, ext, dsModel, s_model, s_data, s_registered, s_free, closure, chain, fitter>>

\* sampler._log_like(trial_values); trial_values is only quoted in a warning
LogLike ==
  LET r == _log_like(s_data, value[s_model]) IN
  /\ s_model # "None"
  /\ ret' = Call("_log_like", s_model, s_data, <<>>, r.out, r.log)
  /\ UNCHANGED <<prior, free, value, ext, dsModel, s_model, s_data, s_registered, s_free,
                 closure, chain, fitter>>

(***************************************************************************)
(* Registration: two models, of which m2 may have free parameters without  *)
(* a prior, and data lists over all the datasets.                          *)
(***************************************************************************)
AllOf(v) == [p \in Params |-> v]

\* the datasets registered here
RegPool == {"A", "C", "D"}

\* m1 has a prior on every parameter; on m2 one parameter q may have none,
\* and may be fixed
InitReg ==
  /\ \E q \in Params \cup {""}, isfree \in BOOLEAN :
        /\ prior = [m \in Models |-> [p \in Params |->
                       IF m = "m2" /\ p = q THEN "none" ELSE "uniform"]]
        /\ free = [m \in Models |-> [p \in Params |-> m = "m1" \/ p # q \/ isfree]]
  /\ value = [m \in Models |-> AllOf(1)]
  /\ ext = [m \in Models |-> {}]
  /\ dsModel = [d \in DS |-> "None"]
  /\ s_model = "None"
  /\ s_data = <<>>
  /\ s_registered = FALSE
  /\ s_free = <<>>
  /\ closure = "none"
  /\ NoChain
  /\ NoFitter
  /\ ret = NoCall

NextReg ==
  \/ \E m \in Models, dl \in DataLists(RegPool) : SetModelAndData(m, dl)
  \/ \E m \in Models, dl \in DataLists(RegPool) : Construct(m, dl)

SpecReg == InitReg /\ [][NextReg]_vars

(***************************************************************************)
(* Posterior evaluation: a sampler registered on m1 with datasets that     *)
(* register, its free parameters as _update_free_parameters sets them.     *)
(***************************************************************************)
\* the priors of the parameters: the kinds, rotated by k
Rotated(k) ==
  [p \in Params |->
     LET i == CHOOSE j \in 1..Len(ParamOrder) : ParamOrder[j] = p IN
     CASE (i + k) % 3 = 0 -> "uniform" [] (i + k) % 3 = 1 -> "peak" [] OTHER -> "nocube"]

\* a sampler registered on m1 with a data list among lists, the priors rotated
\* by one of rots, one of the parameters of fixed (or none) fixed and every
\* parameter at a value of vs
RegisteredOn(rots, lists, fixed, vs) ==
  /\ \E k \in rots : prior = [m \in Models |-> Rotated(k)]
  /\ \E q \in fixed : free = [m \in Models |-> [p \in Params |-> p # q]]
  /\ \E v \in vs : value = [m \in Models |-> AllOf(v)]
  /\ \E dl \in lists :
        LET st == [model |-> "None", data |-> <<>>, registered |-> FALSE,
                   ext |-> [m \in Models |-> {}], dsModel |-> [d \in DS |-> "None"]]
            r == _register_model_and_data(st, prior, free, "m1", dl)
        IN /\ s_model = r.st.model
           /\ s_data = r.st.data
           /\ s_registered = r.st.registered
           /\ ext = r.st.ext
           /\ dsModel = r.st.dsModel
  /\ s_free = free_parameters(free["m1"])
  /\ ret = NoCall

InitPost ==
  /\ RegisteredOn(0..2, DataLists({"A", "B", "C"}), {"", "K"}, Vals)
  /\ closure = "none"
  /\ NoChain
  /\ NoFitter

NextPost ==
  \/ \E x \in TrialVectors : GetPosterior(x)
  \/ \E x \in TrialVectors : LogPrior(x)
  \/ LogLike

SpecPost == InitPost /\ [][NextPost]_vars

(***************************************************************************)
(* UnitCubeSampler: the closures handed to a nested-sampling engine.       *)
(***************************************************************************)
\* the loop of the prior closures: entry i becomes the i-th free parameter's
\* from_unit_cube of it; stops at a prior without from_unit_cube
RECURSIVE unit_cube_loop(_, _, _, _)
unit_cube_loop(free_pars, pri, params, i) ==
  IF i > Len(free_pars) THEN [params |-> params, failed |-> FALSE]
  ELSE LET kind == pri[free_pars[i]] IN
       IF ~has_from_unit_cube(kind) THEN [params |-> params, failed |-> TRUE]
       ELSE unit_cube_loop(free_pars, pri,
              [params EXCEPT ![i] = from_unit_cube(kind, params[i])], i + 1)

\* the closure of return_copy = True working on the cube itself
prior_copy_aliased(free_pars, pri, cube) ==
  LET r == unit_cube_loop(free_pars, pri, cube, 1) IN
  IF r.failed THEN [out |-> Raise("RuntimeError", ""), res |-> <<>>, cube |-> r.params]
  ELSE [out |-> Value(Fin(0)), res |-> r.params, cube |-> r.params]

\* the closure prior(cube) of return_copy = True
prior_copy(free_pars, pri, cube) ==
  LET r == unit_cube_loop(free_pars, pri, cube, 1) IN
  IF r.failed THEN [out |-> Raise("RuntimeError", ""), res |-> <<>>, cube |-> cube]
  ELSE [out |-> Value(Fin(0)), res |-> r.params, cube |-> cube]

\* the closure prior(params, ndim, nparams) of return_copy = False
prior_in_place(free_pars, pri, params) ==
  LET r == unit_cube_loop(free_pars, pri, params, 1) IN
  IF r.failed THEN [out |-> Raise("RuntimeError", ""), res |-> <<>>, cube |-> r.params]
  ELSE [out |-> None, res |-> <<>>, cube |-> r.params]

\* the closure without its loop over the free parameters
loglike_unassigned(free_pars, data_list, vals, trial_values) ==
  LET r == _log_like(data_list, vals)
  IN [out |-> r.out, vals |-> vals, log |-> r.log]

\* the closure loglike(trial_values)
loglike(free_pars, data_list, vals, trial_values) ==
  LET bound == [p \in Params |->
                  IF \E i \in 1..Len(free_pars) : free_pars[i] = p
                  THEN trial_values[CHOOSE i \in 1..Len(free_pars) : free_pars[i] = p]
                  ELSE vals[p]]
      r == _log_like(data_list, bound)
  IN [out |-> r.out, vals |-> bound,
      log |-> [i \in 1..Len(free_pars) |-> SetEv(free_pars[i], trial_values[i])] \o r.log]

\* UnitCubeSampler._construct_unitcube_posterior(return_copy): the free
\* parameters as updated, what the call returns or raises, and the closures
\* it returns
_construct_unitcube_posterior(fr, pri, return_copy) ==
  LET updated == free_parameters(fr)
      n_dim == Len(updated)
      dry == prior_in_place(updated, pri, [i \in 1..n_dim |-> 1])
  IN IF return_copy
     THEN [free_pars |-> updated, out |-> Value(Fin(0)), closure |-> "copy"]
     ELSE IF dry.out.t = "raise"
          THEN [free_pars |-> updated, out |-> dry.out, closure |-> "none"]
          ELSE [free_pars |-> updated, out |-> Value(Fin(0)), closure |-> "in_place"]

\* sampler._construct_unitcube_posterior(return_copy)
ConstructUnitcubePosterior(return_copy) ==
  LET r == _construct_unitcube_posterior(free[s_model], prior[s_model], return_copy) IN
  /\ s_model # "None"
  /\ s_free' = r.free_pars
  /\ closure' = IF r.out.t = "raise" THEN closure ELSE r.closure
  /\ ret' = [Call("_construct_unitcube_posterior", s_model, s_data, <<>>, r.out, <<>>)
               EXCEPT !.res = <<return_copy>>]
  /\ UNCHANGED <<prior, free, value, ext, dsModel, s_model, s_data, s_registered, chain, fitter>>

\* the engine calls the prior closure it was handed
PriorTransform(cube) ==
  LET r == IF closure = "copy" THEN prior_copy(s_free, prior[s_model], cube)
           ELSE prior_in_place(s_free, prior[s_model], cube) IN
  /\ closure # "none"
  /\ ret' = [Call("prior", s_model, s_data, r.cube, r.out, <<>>)
               EXCEPT !.res = r.res, !.arg = cube]
  /\ UNCHANGED <<prior, free, value, ext, dsModel, s_model, s_data, s_registered, s_free,
                 closure, chain, fitter>>

\* the engine calls the loglike closure it was handed
CubeLogLike(v) ==
  LET r == loglike(s_free, s_data, value[s_model], v) IN
  /\ closure # "none"
  /\ value' = [value EXCEPT ![s_model] = r.vals]
  /\ ret' = Call("loglike", s_model, s_data, v, r.out, r.log)
  /\ UNCHANGED <<prior, free, ext, dsModel, s_model, s_data, s_registered, s_free, closure, chain, fitter>>

\* the user fixes or frees a parameter of the model
SetFree(p, b) ==
  /\ s_model # "None"
  /\ free[s_model][p] # b
  /\ free' = [free EXCEPT ![s_model][p] = b]
  /\ ret' = NoCall
  /\ UNCHANGED <<prior, value, ext, dsModel, s_model, s_data, s_registered, s_free, closure, chain, fitter>>

InitCube ==
  /\ RegisteredOn(0..2, {<<"A", "C">>, <<"B">>}, {"", "K"}, {1})
  /\ closure = "none"
  /\ NoChain
  /\ NoFitter

NextCube ==
  \/ \E return_copy \in BOOLEAN : ConstructUnitcubePosterior(return_copy)
  \/ \E cube \in [1..Len(s_free) -> CubeVals] : PriorTransform(cube)
  \/ \E v \in TrialVectors : CubeLogLike(v)
  \/ \E p \in Params, b \in BOOLEAN : SetFree(p, b)

SpecCube == InitCube /\ [][NextCube]_vars

(***************************************************************************)
(* SamplerBase: the products of a sampling run.                            *)
(***************************************************************************)
\* the values of the draws: even, so that the median of an even number of
\* draws is a value
SampleVals == {v \in Vals : v % 2 = 0}

\* dataset.get_number_of_data_points()
get_number_of_data_points(d) ==
  CASE d = "A" -> 3 [] d = "B" -> 2 [] OTHER -> 1

\* raw_samples[:, i]
Column(rows, i) == [k \in 1..Len(rows) |-> rows[k][i]]

\* the number of entries of col below v, and equal to v
Below(col, v) == Cardinality({k \in 1..Len(col) : col[k] < v})
Same(col, v) == Cardinality({k \in 1..Len(col) : col[k] = v})

\* the k-th smallest entry of col
Kth(col, k) ==
  CHOOSE v \in {col[j] : j \in 1..Len(col)} : Below(col, v) < k /\ k <= Below(col, v) + Same(col, v)

\* numpy.median of a column with at least one entry
median(col) ==
  LET n == Len(col) IN
  IF n % 2 = 1 THEN Kth(col, (n + 1) \div 2)
  ELSE (Kth(col, n \div 2) + Kth(col, n \div 2 + 1)) \div 2

\* the last index of the largest entry
argmax_last(a) ==
  CHOOSE i \in 1..Len(a) :
    /\ \A j \in 1..Len(a) : a[j].v <= a[i].v
    /\ \A j \in (i + 1)..Len(a) : a[j].v < a[i].v

\* a.argmax() over finite floats: the first index of the largest entry
argmax(a) ==
  CHOOSE i \in 1..Len(a) :
    /\ \A j \in 1..Len(a) : a[j].v <= a[i].v
    /\ \A j \in 1..(i - 1) : a[j].v < a[i].v

\* the loop of restore_median_fit over the free parameters, from the i-th on
RECURSIVE restore_median_loop(_, _, _, _)
restore_median_loop(free_pars, samples, vals, i) ==
  IF i > Len(free_pars) THEN [out |-> None, vals |-> vals]
  ELSE IF ~samples.set THEN [out |-> Raise("TypeError", ""), vals |-> vals]
  ELSE IF \A k \in 1..Len(samples.keys) : samples.keys[k] # free_pars[i]
       THEN [out |-> Raise("KeyError", ""), vals |-> vals]
  ELSE LET k == CHOOSE k \in 1..Len(samples.keys) : samples.keys[k] = free_pars[i] IN
       restore_median_loop(free_pars, samples,
                           [vals EXCEPT ![free_pars[i]] = median(samples.cols[k])], i + 1)

\* SamplerBase.restore_median_fit
restore_median_fit(free_pars, samples, vals) ==
  restore_median_loop(free_pars, samples, vals, 1)

\* _build_samples_dictionary with the columns taken in reverse
samples_dictionary_reversed(free_pars, raw) ==
  IF free_pars # <<>> /\ ~raw.set
  THEN [out |-> Raise("TypeError", ""),
        samples |-> [set |-> TRUE, keys |-> <<>>, cols |-> <<>>]]
  ELSE [out |-> None,
        samples |-> [set |-> TRUE, keys |-> free_pars,
                     cols |-> [i \in 1..Len(free_pars) |->
                                 Column(raw.v, Len(free_pars) + 1 - i)]]]

\* SamplerBase._build_samples_dictionary: the dictionary it leaves in _samples
_build_samples_dictionary(free_pars, raw) ==
  IF free_pars # <<>> /\ ~raw.set
  THEN [out |-> Raise("TypeError", ""),
        samples |-> [set |-> TRUE, keys |-> <<>>, cols |-> <<>>]]
  ELSE [out |-> None,
        samples |-> [set |-> TRUE, keys |-> free_pars,
                     cols |-> [i \in 1..Len(free_pars) |-> Column(raw.v, i)]]]

\* the loop with the total made of the likelihoods alone
RECURSIVE log_posteriors_loop_of_likelihoods(_, _, _, _, _)
log_posteriors_loop_of_likelihoods(data_list, vals, log_prior, i, acc) ==
  IF i > Len(data_list) THEN acc
  ELSE LET r == get_log_like(data_list[i], vals)
           log_posterior == FAdd(r.f, log_prior)
       IN IF r.t = "raise" THEN [acc EXCEPT !.out = r]
          ELSE log_posteriors_loop_of_likelihoods(data_list, vals, log_prior, i + 1,
                 [out |-> acc.out,
                  log_posteriors |-> Append(acc.log_posteriors,
                                            <<DsName(data_list[i]), log_posterior>>),
                  total_n_data_points |-> acc.total_n_data_points
                                          + get_number_of_data_points(data_list[i]),
                  total_log_posterior |-> FAdd(acc.total_log_posterior, r.f)])

\* the loop of _build_results over the datasets, from the i-th on: a dataset
\* that raises ends it
RECURSIVE log_posteriors_loop(_, _, _, _, _)
log_posteriors_loop(data_list, vals, log_prior, i, acc) ==
  IF i > Len(data_list) THEN acc
  ELSE LET r == get_log_like(data_list[i], vals)
           log_posterior == FAdd(r.f, log_prior)
       IN IF r.t = "raise" THEN [acc EXCEPT !.out = r]
          ELSE log_posteriors_loop(data_list, vals, log_prior, i + 1,
                 [out |-> acc.out,
                  log_posteriors |-> Append(acc.log_posteriors,
                                            <<DsName(data_list[i]), log_posterior>>),
                  total_n_data_points |-> acc.total_n_data_points
                                          + get_number_of_data_points(data_list[i]),
                  total_log_posterior |-> FAdd(acc.total_log_posterior, log_posterior)])

\* the points between the smallest and the largest draw of every column,
\* where the mean of the draws lies
Means(rows) ==
  {mu \in [1..Len(rows[1]) -> Vals] :
     \A i \in 1..Len(rows[1]) :
        /\ \E k \in 1..Len(rows) : rows[k][i] <= mu[i]
        /\ \E k \in 1..Len(rows) : rows[k][i] >= mu[i]}

\* dic(self): the deviance information criterion evaluates the posterior at
\* the mean mu of the draws
dic(free_pars, data_list, pri, vals, mu) == get_posterior(free_pars, data_list, pri, vals, mu)

\* SamplerBase._build_results: what it raises, the live values and _results
\* as it leaves them
_build_results(free_pars, data_list, pri, vals, raw, logp, marginal, results, mu) ==
  IF ~logp.set THEN [out |-> Raise("AttributeError", ""), vals |-> vals, results |-> results]
  ELSE
    LET idx == argmax(logp.v)
        approximate_MAP_point == raw.v[idx]
        at_MAP == [p \in Params |->
                     IF \E i \in 1..Len(free_pars) : free_pars[i] = p
                     THEN approximate_MAP_point[CHOOSE i \in 1..Len(free_pars) : free_pars[i] = p]
                     ELSE vals[p]]
        lp == _log_prior(free_pars, pri, at_MAP, approximate_MAP_point)
        ds == log_posteriors_loop(data_list, lp.vals, lp.out.f, 1,
                [out |-> None, log_posteriors |-> <<>>, total_n_data_points |-> 0,
                 total_log_posterior |-> Fin(0)])
        d == dic(free_pars, data_list, pri, lp.vals, mu)
    IN IF ds.out.t = "raise" THEN [out |-> ds.out, vals |-> lp.vals, results |-> results]
       ELSE IF d.out.t = "raise" THEN [out |-> d.out, vals |-> d.vals, results |-> results]
       ELSE IF marginal = "unset"
            THEN [out |-> Raise("AttributeError", ""), vals |-> d.vals, results |-> results]
       ELSE [out |-> None, vals |-> d.vals,
             results |-> [set |-> TRUE, log_posteriors |-> ds.log_posteriors,
                          total_log_posterior |-> ds.total_log_posterior,
                          total_n_data_points |-> ds.total_n_data_points,
                          n_free |-> Len(free_pars), samples |-> raw.v,
                          logZ |-> marginal # "None"]]

\* a subclass's sampling run stores what its engine produced
Sample(rows, logp, marginal) ==
  /\ s_model # "None"
  /\ ~s_raw_samples.set
  /\ s_raw_samples' = [set |-> TRUE, v |-> rows]
  /\ s_log_probability_values' = [set |-> TRUE, v |-> logp]
  /\ s_marginal_likelihood' = marginal
  /\ ret' = Call("sample", s_model, s_data, <<>>, None, <<>>)
  /\ UNCHANGED <<prior, free, value, ext, dsModel, s_model, s_data, s_registered, s_free,
                 closure, s_samples, s_results, fitter>>

\* sampler._build_samples_dictionary()
BuildSamplesDictionary ==
  LET r == _build_samples_dictionary(s_free, s_raw_samples) IN
  /\ s_model # "None"
  /\ s_samples' = r.samples
  /\ ret' = Call("_build_samples_dictionary", s_model, s_data, <<>>, r.out, <<>>)
  /\ UNCHANGED <<prior, free, value, ext, dsModel, s_model, s_data, s_registered, s_free,
                 closure, s_raw_samples, s_log_probability_values, s_marginal_likelihood,
                 s_results, fitter>>

\* sampler._build_results()
BuildResults ==
  /\ s_model # "None"
  /\ \E mu \in IF s_raw_samples.set THEN Means(s_raw_samples.v) ELSE {<<>>} :
       LET r == _build_results(s_free, s_data, prior[s_model], value[s_model], s_raw_samples,
                               s_log_probability_values, s_marginal_likelihood, s_results, mu)
       IN /\ value' = [value EXCEPT ![s_model] = r.vals]
          /\ s_results' = r.results
          /\ ret' = Call("_build_results", s_model, s_data, <<>>, r.out, <<>>)
  /\ UNCHANGED <<prior, free, ext, dsModel, s_model, s_data, s_registered, s_free,
                 closure, s_raw_samples, s_log_probability_values, s_marginal_likelihood,
                 s_samples, fitter>>

\* sampler.restore_median_fit()
RestoreMedianFit ==
  LET r == restore_median_fit(s_free, s_samples, value[s_model]) IN
  /\ s_model # "None"
  /\ value' = [value EXCEPT ![s_model] = r.vals]
  /\ ret' = Call("restore_median_fit", s_model, s_data, <<>>, r.out, <<>>)
  /\ UNCHANGED <<prior, free, ext, dsModel, s_model, s_data, s_registered, s_free,
                 closure, chain, fitter>>

\* the outputs of an engine that has not run yet: up to MaxRows draws of the
\* free parameters
Draws ==
  IF s_raw_samples.set THEN {}
  ELSE UNION {[1..n -> [1..Len(s_free) -> SampleVals]] : n \in 1..MaxRows}

InitRes ==
  /\ RegisteredOn({0, 1}, {<<"A", "C">>}, {"", "K"}, {1})
  /\ closure = "none"
  /\ NoChain
  /\ NoFitter

NextRes ==
  \/ \E rows \in Draws, marginal \in {"unset", "None"} :
       \E logp \in [1..Len(rows) -> {Fin(-1), Fin(0)}] : Sample(rows, logp, marginal)
  \/ BuildSamplesDictionary
  \/ BuildResults
  \/ RestoreMedianFit

SpecRes == InitRes /\ [][NextRes]_vars

(***************************************************************************)
(* computeCovarianceMatrix: the Hessian by central differences of a        *)
(* gradient, and its inverse.  The arithmetic is exact: a number is        *)
(* n / d * 10^e with n / d in lowest terms, d prime to 10, n no multiple. *)
(***************************************************************************)
\* numpy.sign
sign(v) == IF v > 0 THEN 1 ELSE IF v < 0 THEN -1 ELSE 0

RECURSIVE pow(_, _)
pow(b, i) == IF i = 0 THEN 1 ELSE b * pow(b, i - 1)

RECURSIVE Gcd(_, _)
Gcd(a, b) == IF b = 0 THEN a ELSE Gcd(b, a % b)

\* n / d * 10^e for coprime n and positive d, with the factors 2 and 5 of d
\* and the factors 10 of n moved into the power of 10
RECURSIVE Norm(_, _, _)
Norm(n, d, e) ==
  IF d % 2 = 0 THEN Norm(5 * n, d \div 2, e - 1)
  ELSE IF d % 5 = 0 THEN Norm(2 * n, d \div 5, e - 1)
  ELSE IF n % 10 = 0 THEN Norm(n \div 10, d, e + 1)
  ELSE [n |-> n, d |-> d, e |-> e]

\* the number n / d * 10^e
Num(n, d, e) ==
  IF n = 0 THEN [n |-> 0, d |-> 1, e |-> 0]
  ELSE LET s == IF d < 0 THEN -1 ELSE 1
           g == Gcd(Abs(n), Abs(d))
       IN Norm((s * n) \div g, (s * d) \div g, e)

NMul(a, b) ==
  LET g1 == Gcd(Abs(a.n), b.d)
      g2 == Gcd(Abs(b.n), a.d)
  IN Num((a.n \div g1) * (b.n \div g2), (a.d \div g2) * (b.d \div g1), a.e + b.e)

NDiv(a, b) == NMul(a, Num(b.d, b.n, -b.e))

NNeg(a) == [a EXCEPT !.n = -a.n]

NAdd(a, b) ==
  IF a.n = 0 THEN b
  ELSE IF b.n = 0 THEN a
  ELSE LET e == IF a.e < b.e THEN a.e ELSE b.e
           g == Gcd(a.d, b.d)
       IN Num(a.n * pow(10, a.e - e) * (b.d \div g) + b.n * pow(10, b.e - e) * (a.d \div g),
              (a.d \div g) * b.d, e)

NSub(a, b) == NAdd(a, NNeg(b))

NAbs(a) == [a EXCEPT !.n = Abs(a.n)]

\* a < b; numbers nine and more decimal orders apart are told apart by
\* their order, their n and d being far below 10^9
NLess(a, b) ==
  IF sign(a.n) # sign(b.n) THEN sign(a.n) < sign(b.n)
  ELSE IF a.n = 0 THEN FALSE
  ELSE LET lo == IF a.n > 0 THEN a ELSE NNeg(b)
           hi == IF a.n > 0 THEN b ELSE NNeg(a)
       IN IF hi.e - lo.e >= 9 THEN TRUE
          ELSE IF lo.e - hi.e >= 9 THEN FALSE
          ELSE NSub(lo, hi).n < 0

NMin(a, b) == IF NLess(b, a) THEN b ELSE a
NMax(a, b) == IF NLess(a, b) THEN b ELSE a

\* the keyword arguments of computeCovarianceMatrix at their defaults
init_step == Num(1, 100, 0)
min_step == Num(1, 1, -12)
max_step == Num(1, 1, 0)
max_iters == 50
target == Num(1, 10, 0)
min_func == Num(1, 1, -7)
max_func == Num(4, 1, 0)

\* step_size: init_step between min_step * 1.1 and max_step * 0.9
first_step(lo) == NMin(NMax(init_step, NMul(lo, Num(11, 10, 0))), NMul(max_step, Num(9, 10, 0)))

\* no number
Zero == Num(0, 1, 0)

\* the gradient of an objective: H par, and in component k a jump of 2 J[k]
\* where parameter k crosses at[k] (the objective has the term
\* J[k] |par[k] - at[k]|)
Gradient(H, J, at) == [H |-> H, J |-> J, at |-> at]

\* a gradient that is linear in the parameters: H par
Linear(H) == Gradient(H, [k \in 1..Len(H) |-> Zero], [k \in 1..Len(H) |-> Zero])

\* grad(par) for the gradient g
grad(g, par) ==
  LET RECURSIVE dot(_, _)
      dot(k, j) == IF j = 0 THEN Zero ELSE NAdd(dot(k, j - 1), NMul(g.H[k][j], par[j]))
  IN [k \in 1..Len(g.H) |->
        NAdd(dot(k, Len(par)),
             NMul(g.J[k], Num(sign(NSub(par[k], g.at[k]).n), 1, 0)))]

\* revised_step without the cuts of the new step to max_step and min_step
revised_step_uncut(delta_f, current_step, lo) ==
  IF current_step = max_step THEN [converged |-> TRUE, new_step |-> Num(0, 1, 0), flag |-> "max"]
  ELSE IF current_step = lo THEN [converged |-> TRUE, new_step |-> Num(0, 1, 0), flag |-> "min"]
  ELSE LET adf == NAbs(delta_f)
       IN IF NLess(adf, min_func) \/ NLess(max_func, adf)
          THEN [converged |-> FALSE,
                new_step |-> IF adf.n = 0 THEN Num(1, 1, 6)
                             ELSE NDiv(current_step, NDiv(adf, target)),
                flag |-> ""]
          ELSE [converged |-> TRUE, new_step |-> Num(0, 1, 0), flag |-> ""]

\* revised_step(delta_f, current_step, index) with minimum step lo; a
\* division by an adf of 0 gives an infinite new step, cut to max_step
revised_step(delta_f, current_step, lo) ==
  IF current_step = max_step THEN [converged |-> TRUE, new_step |-> Num(0, 1, 0), flag |-> "max"]
  ELSE IF current_step = lo THEN [converged |-> TRUE, new_step |-> Num(0, 1, 0), flag |-> "min"]
  ELSE LET adf == NAbs(delta_f)
       IN IF NLess(adf, min_func) \/ NLess(max_func, adf)
          THEN LET new_step == IF adf.n = 0 THEN max_step
                               ELSE NMin(NDiv(current_step, NDiv(adf, target)), max_step)
               IN [converged |-> FALSE, new_step |-> NMax(new_step, lo), flag |-> ""]
          ELSE [converged |-> TRUE, new_step |-> Num(0, 1, 0), flag |-> ""]

\* the iterations j, j + 1, ... of the loop over the steps of parameter i,
\* the first of them at step di: what the last iteration leaves, and the
\* steps used
RECURSIVE step_loop(_, _, _, _, _, _, _)
step_loop(g, par, i, di, j, lo, iters) ==
  LET g_up == grad(g, [par EXCEPT ![i] = NAdd(@, di)])
      g_dn == grad(g, [par EXCEPT ![i] = NSub(@, di)])
      delta_f == NSub(g_up[i], g_dn[i])
      r == revised_step(delta_f, di, lo)
  IN IF r.converged \/ j = iters
     THEN [g_up |-> g_up, g_dn |-> g_dn, di |-> di, converged |-> r.converged,
           step_size |-> IF r.converged THEN di ELSE r.new_step, iters |-> j,
           used |-> <<di>>]
     ELSE [step_loop(g, par, i, r.new_step, j + 1, lo, iters) EXCEPT !.used = <<di>> \o @]

\* the central difference at the step the loop has revised last
central_difference_revised(last) ==
  [k \in 1..Len(last.g_up) |->
     NDiv(NSub(last.g_up[k], last.g_dn[k]), NMul(Num(2, 1, 0), last.step_size))]

\* hess[i,:] = (g_up - g_dn) / (2*di)
central_difference(last) ==
  [k \in 1..Len(last.g_up) |->
     NDiv(NSub(last.g_up[k], last.g_dn[k]), NMul(Num(2, 1, 0), last.di))]

\* the determinant of a matrix of one or two rows
det(m) ==
  IF Len(m) = 1 THEN m[1][1]
  ELSE NSub(NMul(m[1][1], m[2][2]), NMul(m[1][2], m[2][1]))

\* numpy.linalg.inv of a matrix of one or two rows that is not singular
inv(m) ==
  IF Len(m) = 1 THEN <<<<NDiv(Num(1, 1, 0), m[1][1])>>>>
  ELSE <<<<NDiv(m[2][2], det(m)), NDiv(NNeg(m[1][2]), det(m))>>,
         <<NDiv(NNeg(m[2][1]), det(m)), NDiv(m[1][1], det(m))>>>>

\* computeCovarianceMatrix(grad, par, min_step = lo, max_iters = iters) for
\* the gradient g
computeCovarianceMatrix(g, par, lo, iters) ==
  LET last == [i \in 1..Len(par) |-> step_loop(g, par, i, first_step(lo), 1, lo, iters)]
      hess == [i \in 1..Len(par) |-> central_difference(last[i])]
      ran == [NoCm EXCEPT !.H = g.H, !.J = g.J, !.par = par, !.min_step = lo, !.max_iters = iters,
                !.hess = hess,
                !.di = [i \in 1..Len(par) |-> last[i].di],
                !.step_size = [i \in 1..Len(par) |-> last[i].step_size],
                !.converged = [i \in 1..Len(par) |-> last[i].converged],
                !.iters = [i \in 1..Len(par) |-> last[i].iters],
                !.used = [i \in 1..Len(par) |-> last[i].used]]
  IN IF det(hess).n = 0 THEN [ran EXCEPT !.out = Raise("Exception", "")]
     ELSE [ran EXCEPT !.out = Value(Fin(0)), !.cov = inv(hess)]

(***************************************************************************)
(* FermiGBMLike: the background polynomial fitter.  Coefficients are       *)
(* rationals n/d, +inf or NaN; what numpy.polyfit, scipy's fmin and the    *)
(* covariance estimation compute are inputs of the call.                   *)
(***************************************************************************)
Q(n, d) == [k |-> "fin", n |-> n, d |-> d]
QInf == [k |-> "pinf", n |-> 0, d |-> 1]
QNaN == [k |-> "nan", n |-> 0, d |-> 1]

\* the coefficients numpy.polyfit and fmin may come up with
Coef == {-1, 0, 1}

\* the counts of a bin
Counts == {0, 1}

RECURSIVE Sum(_)
Sum(a) == IF a = <<>> THEN 0 ELSE a[Len(a)] + Sum(SubSeq(a, 1, Len(a) - 1))

\* Polynomial(params)
Polynomial(params) ==
  [params |-> params, degree |-> Len(params) - 1,
   covMatrix |-> [i \in 1..Len(params) |-> [j \in 1..Len(params) |-> Num(0, 1, 0)]]]

\* Polynomial.setParams(parameters) on the polynomial p
setParams(p, parameters) == [p EXCEPT !.params = parameters]

\* Polynomial.getNumFreeParams() on the polynomial p
getNumFreeParams(p) == p.degree + 1

\* Polynomial.computeCovarianceMatrix(statisticGradient) on the polynomial p,
\* r being what computeCovarianceMatrix(statisticGradient, self.params) did:
\* the polynomial it leaves and what it returns or raises
Polynomial_computeCovarianceMatrix(p, r) ==
  IF r.out.t = "raise" THEN [polynomial |-> p, out |-> r.out]
  ELSE LET stored == [p EXCEPT !.covMatrix = r.cov]
       IN IF \E i \in 1..Len(r.cov) : r.cov[i][i].n < 0
          THEN [polynomial |-> stored, out |-> Raise("RuntimeError", "")]
          ELSE [polynomial |-> stored, out |-> Value(Fin(0))]

\* Polynomial.horner over integer coefficients
RECURSIVE horner(_, _)
horner(params, x) ==
  IF params = <<>> THEN 0
  ELSE params[1] + x * horner(SubSeq(params, 2, Len(params)), x)

\* the reseeded guess: mean(y) first, then entry i is |c_i| / mean(x)^i
reseed(c, x, y) ==
  [j \in 1..Len(c) |->
     LET i == j - 1
         num == (IF i = 0 THEN Abs(Sum(y)) ELSE Abs(c[j])) * pow(Len(x), i)
         den == IF i = 0 THEN Len(y) ELSE pow(Sum(x), i)
     IN IF den = 0 THEN (IF num = 0 THEN QNaN ELSE QInf)
        ELSE IF den < 0 THEN Q(-num, -den)
        ELSE Q(num, den)]

\* the number of bins with y > 0
Nnonzero(y) == Cardinality({i \in 1..Len(y) : y[i] > 0})

\* the polynomial of coefficients c is negative somewhere on x
negative(c, x) == \E i \in 1..Len(x) : horner(c, x[i]) < 0

\* the guess _polyfit hands to fmin, c being what numpy.polyfit returned,
\* lowest degree first: reseeded when c is negative somewhere on x, and cut
\* to its first entry when the bins with counts are too few
initial_guess(x, y, polGrade, c) ==
  LET seeded == IF negative(c, x) THEN reseed(c, x, y) ELSE [j \in 1..Len(c) |-> Q(c[j], 1)]
      dof == Nnonzero(y) - (polGrade + 1)
  IN IF dof <= 2 /\ dof < 2 /\ Len(seeded) > 1 THEN SubSeq(seeded, 1, 1) ELSE seeded

\* what the covariance estimation of the final polynomial may do
CovOutcomes == {"ok", "singular", "negative"}

\* no call of _polyfit yet, on these arguments
Args(x, y, polGrade) == [NoFit EXCEPT !.x = x, !.y = y, !.polGrade = polGrade]

\* _polyfit returning the final polynomial whatever the covariance
\* estimation did
polyfit_swallows(x, y, polGrade, c, e, cov) ==
  [Args(x, y, polGrade) EXCEPT
     !.initialGuess = initial_guess(x, y, polGrade, c),
     !.reseeded = negative(c, x),
     !.ran = {"polyfit", "fmin", "computeCovarianceMatrix"},
     !.cov = cov,
     !.out = Value(Fin(0)),
     !.polynomial = Polynomial([j \in 1..Len(e) |-> Q(e[j], 1)]),
     !.minlogLikelihood = [k |-> "cash", v |-> 0]]

\* _polyfit past its test of y: c is what numpy.polyfit returns, e what fmin
\* returns and cov what the covariance estimation does
polyfit_fit(x, y, polGrade, c, e, cov) ==
  LET initialGuess == initial_guess(x, y, polGrade, c)
      finalEstimate == [j \in 1..Len(e) |-> Q(e[j], 1)]
      diag == IF cov = "ok" THEN Num(1, 1, 0) ELSE Num(-1, 1, 0)
      covMatrix == [i \in 1..Len(e) |->
                      [j \in 1..Len(e) |-> IF i = j THEN diag ELSE Num(0, 1, 0)]]
      r == IF cov = "singular" THEN [NoCm EXCEPT !.out = Raise("Exception", "")]
           ELSE [NoCm EXCEPT !.out = Value(Fin(0)), !.cov = covMatrix]
      final == Polynomial_computeCovarianceMatrix(Polynomial(finalEstimate), r)
      ran == [Args(x, y, polGrade) EXCEPT
                !.initialGuess = initialGuess,
                !.reseeded = negative(c, x),
                !.ran = {"polyfit", "fmin", "computeCovarianceMatrix"},
                !.cov = cov]
  IN IF final.out.t = "raise" THEN [ran EXCEPT !.out = final.out]
     ELSE [ran EXCEPT !.out = Value(Fin(0)),
                      !.polynomial = final.polynomial,
                      !.minlogLikelihood = [k |-> "cash", v |-> 0]]

\* _polyfit without its test of y
polyfit_always_fits(x, y, polGrade, c, e, cov) == polyfit_fit(x, y, polGrade, c, e, cov)

\* FermiGBMLike._polyfit(x, y, polGrade)
_polyfit(x, y, polGrade, c, e, cov) ==
  IF Nnonzero(y) = 0
  THEN [Args(x, y, polGrade) EXCEPT !.out = Value(Fin(0)),
                                    !.polynomial = Polynomial(<<Q(0, 1)>>),
                                    !.minlogLikelihood = Fin(0)]
  ELSE polyfit_fit(x, y, polGrade, c, e, cov)

\* self._polyfit(x, y, polGrade) on the arguments of pf; the call depends on
\* nothing but its arguments, so one call is made on each
Polyfit(c, e, cov) ==
  /\ pf.out = None
  /\ pf' = _polyfit(pf.x, pf.y, pf.polGrade, c, e, cov)
  /\ UNCHANGED <<sampler, fg, cash, cm, poly, th>>

\* FermiGBMLike._fitChannel(cnts, bins, polGrade)
_fitChannel(cnts, bins, polGrade, c, e, cov) ==
  [_polyfit(bins, cnts, polGrade, c, e, cov) EXCEPT !.caller = "_fitChannel"]

\* self._fitChannel(cnts, bins, polGrade) on the arguments of pf
FitChannel(c, e, cov) ==
  /\ pf.out = None
  /\ pf' = _fitChannel(pf.y, pf.x, pf.polGrade, c, e, cov)
  /\ UNCHANGED <<sampler, fg, cash, cm, poly, th>>

\* the largest degree _fitGlobalAndDetermineOptimumGrade asks for
maxGrade == 4

\* the bin centres: consecutive, from a first one
Bins(first, n) == [i \in 1..n |-> first + i - 1]

\* a sampler that is not used
NoSampler ==
  /\ prior = [m \in Models |-> [p \in Params |-> "uniform"]]
  /\ free = [m \in Models |-> [p \in Params |-> TRUE]]
  /\ value = [m \in Models |-> AllOf(1)]
  /\ ext = [m \in Models |-> {}]
  /\ dsModel = [d \in DS |-> "None"]
  /\ s_model = "None"
  /\ s_data = <<>>
  /\ s_registered = FALSE
  /\ s_free = <<>>
  /\ closure = "none"
  /\ NoChain
  /\ ret = NoCall

InitPoly ==
  /\ NoSampler
  /\ th = NoThreads
  /\ poly = NoPoly
  /\ cm = NoCm
  /\ cash = NoCash
  /\ \E n \in 0..MaxBins, first \in {-2, -1}, polGrade \in 0..maxGrade :
       \E y \in [1..n -> Counts] : pf = Args(Bins(first, n), y, polGrade)
  /\ fg = NoGrade

NextPoly ==
  \E c \in IF pf.out = None THEN [1..(pf.polGrade + 1) -> Coef] ELSE {}, cov \in CovOutcomes :
    \E e \in [1..Len(initial_guess(pf.x, pf.y, pf.polGrade, c)) -> Coef] :
      \/ Polyfit(c, e, cov)
      \/ FitChannel(c, e, cov)

SpecPoly == InitPoly /\ [][NextPoly]_vars

(***************************************************************************)
(* FermiGBMLike: the choice of the polynomial degree.  A log-likelihood v  *)
(* stands for v / 2, so that 2 * (a - b) is the difference of the two.     *)
(***************************************************************************)
\* the threshold of the likelihood-ratio statistic
deltaThreshold == 9

\* array(map(lambda x: 2*(x[0]-x[1]), zip(logLikelihoods[:-1], logLikelihoods[1:])))
deltaLoglike(logLikelihoods) ==
  [i \in 1..(Len(logLikelihoods) - 1) |-> logLikelihoods[i] - logLikelihoods[i + 1]]

\* the choice of the first statistic that reaches the threshold
bestGrade_first(logLikelihoods) ==
  LET delta == deltaLoglike(logLikelihoods)
      mask == {i \in 1..Len(delta) : delta[i] >= deltaThreshold}
  IN IF mask = {} THEN 0
     ELSE CHOOSE i \in mask : \A j \in mask : j >= i

\* the degree _fitGlobalAndDetermineOptimumGrade returns, given the
\* log-likelihoods of the fits of degree 0..maxGrade
bestGrade(logLikelihoods) ==
  LET delta == deltaLoglike(logLikelihoods)
      mask == {i \in 1..Len(delta) : delta[i] >= deltaThreshold}
  IN IF mask = {} THEN 0
     ELSE CHOOSE i \in mask : \A j \in mask : j <= i

\* self._fitGlobalAndDetermineOptimumGrade(cnts, bins), the fits of degree
\* 0..maxGrade giving the log-likelihoods of fg
FitGlobalAndDetermineOptimumGrade ==
  /\ fg' = [fg EXCEPT !.bestGrade = bestGrade(fg.logLikelihoods)]
  /\ UNCHANGED <<sampler, pf, cash, cm, poly, th>>

\* the log-likelihoods of the fits, in halves
LikeVals == {0, 1, 9, 10, 19}

InitGrade ==
  /\ NoSampler
  /\ th = NoThreads
  /\ poly = NoPoly
  /\ cm = NoCm
  /\ cash = NoCash
  /\ pf = NoFit
  /\ \E l \in [1..(maxGrade + 1) -> LikeVals] : fg = [NoGrade EXCEPT !.logLikelihoods = l]

NextGrade == FitGlobalAndDetermineOptimumGrade

SpecGrade == InitGrade /\ [][NextGrade]_vars

(***************************************************************************)
(* BkgLogLikelihood: the Cash statistic.  A model value m stands for       *)
(* m * tiny / 2, so that 1 is a value below the smallest normal float; a   *)
(* logarithm is kept as the expression it is taken of.                     *)
(***************************************************************************)
\* numpy.finfo(...).tiny, the smallest normal float
tiny == 2

\* BkgLogLikelihood._fixPrecision(v), which changes v in place: the array
\* it leaves and returns
_fixPrecision(v) ==
  [i \in 1..Len(v) |-> IF Abs(v[i]) <= tiny THEN sign(v[i]) * tiny ELSE v[i]]

\* negative model values left as they are
clamp_none(M) == M

\* M[negativeMask] = 0.0
clamp(M) == [i \in 1..Len(M) |-> IF M[i] < 0 THEN 0 ELSE M[i]]

\* the logarithm of a model value: log(m) above 2 tiny, and the linear
\* extrapolation abs(m) / tiny + log(tiny) - 1 at and below
LogOf(m) == [kind |-> "log", of |-> m]
Extrapolated(m) == [kind |-> "extrapolated", of |-> m]
NoLog == [kind |-> "none", of |-> 0]

\* BkgLogLikelihood._evalLogM(M)
_evalLogM(M) ==
  [i \in 1..Len(M) |-> IF M[i] > 2 * tiny THEN LogOf(M[i]) ELSE Extrapolated(M[i])]

\* __call__ with a _fixPrecision that returns a new array: the negative
\* values are replaced in M alone
BkgLogLikelihood_call_copied(x, y, parameters) ==
  LET M0 == [i \in 1..Len(x) |-> horner(parameters, x[i])]
      Mfixed == _fixPrecision(M0)
      logM == _evalLogM(clamp(M0))
      d_times_logM == [i \in 1..Len(y) |->
                         IF y[i] > 0 THEN [d |-> y[i], logM |-> logM[i]]
                         ELSE [d |-> 0, logM |-> NoLog]]
  IN [i \in 1..Len(y) |-> [M |-> Mfixed[i], d_times_logM |-> d_times_logM[i]]]

\* BkgLogLikelihood.__call__(parameters): the entries of
\* Mfixed - d_times_logM, which numpy.sum adds up; Mfixed is the array M
\* itself, so what is done to M is done to it
BkgLogLikelihood_call(x, y, parameters) ==
  LET M0 == [i \in 1..Len(x) |-> horner(parameters, x[i])]
      Mfixed == clamp(_fixPrecision(M0))
      logM == _evalLogM(Mfixed)
      d_times_logM == [i \in 1..Len(y) |->
                         IF y[i] > 0 THEN [d |-> y[i], logM |-> logM[i]]
                         ELSE [d |-> 0, logM |-> NoLog]]
  IN [i \in 1..Len(y) |-> [M |-> Mfixed[i], d_times_logM |-> d_times_logM[i]]]

\* logLikelihood(parameters) on the x and y of cash
BkgCall(parameters) ==
  /\ cash' = [cash EXCEPT !.parameters = parameters, !.called = TRUE,
                          !.terms = BkgLogLikelihood_call(cash.x, cash.y, parameters)]
  /\ UNCHANGED <<sampler, pf, fg, cm, poly, th>>

\* the coefficients of the polynomials evaluated: constants and slopes
CashParams == [1..1 -> -3..5] \cup ({-1, 0, 3} \X {-1, 1}) \cup {<<-3, 3>>}

InitCash ==
  /\ NoSampler
  /\ th = NoThreads
  /\ poly = NoPoly
  /\ cm = NoCm
  /\ pf = NoFit
  /\ fg = NoGrade
  /\ \E n \in 1..MaxBins : \E y \in [1..n -> 0..2] : cash = [NoCash EXCEPT !.x = Bins(0, n), !.y = y]

NextCash == \E parameters \in CashParams : BkgCall(parameters)

SpecCash == InitCash /\ [][NextCash]_vars

(***************************************************************************)
(* computeCovarianceMatrix: the calls.                                      *)
(***************************************************************************)
\* the symmetric matrices of n rows with these entries
Symmetric(n, first, second, off) ==
  IF n = 1 THEN {<<<<a>>>> : a \in first}
  ELSE {<<<<a, b>>, <<b, c>>>> : a \in first, b \in off, c \in second}

\* the Hessians of the objectives, the parameters and the keyword arguments
\* of the calls
Curvatures == {Num(0, 1, 0), Num(1, 1, 0), Num(-1, 1, 0), Num(250, 1, 0), Num(1, 1, -6)}
Pars == {<<Num(1, 1, 0)>>, <<Num(0, 1, 0), Num(1, 1, 0)>>}
MinSteps == {min_step, Num(1, 1, -3)}
MaxIters == {1, 2, max_iters}

\* the jumps of the gradients: none, or one of 20 in the first component of
\* an objective without curvature there (in the calls of few iterations,
\* whose steps stay far from 10^-9)
Jumps(H, iters) ==
  {[k \in 1..Len(H) |-> Zero]}
    \cup (IF H[1][1] = Zero /\ iters < max_iters
          THEN {[k \in 1..Len(H) |-> IF k = 1 THEN Num(10, 1, 0) ELSE Zero]}
          ELSE {})

\* computeCovarianceMatrix(grad, par, min_step = ..., max_iters = ...)
ComputeCovarianceMatrix ==
  /\ cm.out = None
  /\ cm' = computeCovarianceMatrix(Gradient(cm.H, cm.J, cm.par), cm.par, cm.min_step, cm.max_iters)
  /\ UNCHANGED <<sampler, pf, fg, cash, poly, th>>

InitCm ==
  /\ NoSampler
  /\ th = NoThreads
  /\ pf = NoFit
  /\ fg = NoGrade
  /\ cash = NoCash
  /\ poly = NoPoly
  /\ \E par \in Pars, lo \in MinSteps, iters \in MaxIters :
       \E H \in Symmetric(Len(par), Curvatures, Curvatures \ {Num(1, 1, -6)},
                          {Num(0, 1, 0), Num(1, 1, 0)}) :
         \E J \in Jumps(H, iters) :
           cm = [NoCm EXCEPT !.H = H, !.J = J, !.par = par, !.min_step = lo,
                             !.max_iters = iters]

NextCm == ComputeCovarianceMatrix

SpecCm == InitCm /\ [][NextCm]_vars

(***************************************************************************)
(* Polynomial: an object, the calls of setParams on it and the calls of    *)
(* computeCovarianceMatrix with the gradient of a quadratic objective.     *)
(***************************************************************************)
\* the coefficients a Polynomial is given
Coefficients == {<<Num(1, 1, 0)>>, <<Num(0, 1, 0), Num(1, 1, 0)>>}

\* the curvatures of the objectives
Flat == {Num(0, 1, 0), Num(1, 1, 0), Num(-1, 1, 0)}

\* polynomial.setParams(parameters)
SetParams(parameters) ==
  /\ poly.calls < MaxCalls
  /\ poly' = [poly EXCEPT !.polynomial = setParams(poly.polynomial, parameters),
                          !.op = "setParams", !.out = Value(Fin(0)),
                          !.before = poly.polynomial.covMatrix, !.calls = @ + 1]
  /\ UNCHANGED <<sampler, pf, fg, cash, cm, th>>

\* polynomial.computeCovarianceMatrix(statisticGradient), the gradient being
\* H par
PolynomialComputeCovarianceMatrix(H) ==
  /\ poly.calls < MaxCalls
  /\ \E r \in {computeCovarianceMatrix(Linear(H), poly.polynomial.params, min_step, max_iters)} :
       \E done \in {Polynomial_computeCovarianceMatrix(poly.polynomial, r)} :
         poly' = [poly EXCEPT !.polynomial = done.polynomial,
                              !.op = "computeCovarianceMatrix", !.out = done.out,
                              !.before = poly.polynomial.covMatrix,
                              !.succeeded = @ \/ done.out.t = "value",
                              !.calls = @ + 1]
  /\ UNCHANGED <<sampler, pf, fg, cash, cm, th>>

\* Polynomial(params)
InitPolynomial ==
  /\ NoSampler
  /\ th = NoThreads
  /\ pf = NoFit
  /\ fg = NoGrade
  /\ cash = NoCash
  /\ cm = NoCm
  /\ \E params \in Coefficients :
       poly = [NoPoly EXCEPT !.polynomial = Polynomial(params), !.op = "__init__"]

NextPolynomial ==
  \/ \E parameters \in Coefficients : SetParams(parameters)
  \/ \E H \in Symmetric(Len(poly.polynomial.params), Flat, Flat, {Num(0, 1, 0), Num(1, 1, 0)}) :
       PolynomialComputeCovarianceMatrix(H)

SpecPolynomial == InitPolynomial /\ [][NextPolynomial]_vars

(***************************************************************************)
(* Properties of posterior evaluation (SpecPost).                          *)
(***************************************************************************)
\* some free parameter's prior density is exactly 0 at its entry of x
ZeroPrior(x) ==
  \E i \in 1..Len(s_free) : PriorDensity(prior[s_model][s_free[i]], x[i]) = 0

\* the calls of get_log_like a call made, in order
LikeCalls(log) == SelectSeq(log, LAMBDA e : e.ev = "get_log_like")

\* the parameters vals with the free parameters bound to x
Bound(vals, x) ==
  [p \in Params |->
     IF \E i \in 1..Len(s_free) : s_free[i] = p
     THEN x[CHOOSE i \in 1..Len(s_free) : s_free[i] = p]
     ELSE vals[p]]

\* C1: whenever some free parameter's prior density is exactly 0 at the trial
\* vector, get_posterior and _log_prior return exactly -infinity, and
\* get_posterior does so without a single call of get_log_like.
C1_OutOfSupport ==
  (ret.op \in {"get_posterior", "_log_prior"} /\ ZeroPrior(ret.x)) =>
     /\ ret.out = Value(NegInf)
     /\ LikeCalls(ret.log) = <<>>

\* a get_posterior call on a sampler with datasets, cut short at a parameter
\* that is not the first
C1_Witness ==
  /\ ret.op = "get_posterior"
  /\ ZeroPrior(ret.x)
  /\ Len(s_free) = 2
  /\ PriorDensity(prior[s_model][s_free[1]], ret.x[1]) # 0
  /\ Len(s_data) >= 2
  /\ ret.out = Value(NegInf)

\* C2: with every prior in support, get_posterior(x) is _log_prior(x) plus
\* _log_like evaluated with the free parameters bound to x (and raises what
\* _log_like raises).
C2_Decomposition ==
  (ret.op = "get_posterior" /\ ~ZeroPrior(ret.x)) =>
     LET lp == _log_prior(s_free, prior[s_model], value[s_model], ret.x)
         ll == _log_like(s_data, Bound(value[s_model], ret.x))
     IN /\ lp.out.t = "value"
        /\ IF ll.out.t = "raise" THEN ret.out = ll.out
           ELSE ret.out = Value(FAdd(lp.out.f, ll.out.f))

\* an in-support get_posterior call that returned a finite value made of a
\* non-zero log-prior and a non-zero log-likelihood
C2_Witness ==
  /\ ret.op = "get_posterior"
  /\ ~ZeroPrior(ret.x)
  /\ Len(s_data) >= 2
  /\ ret.out.t = "value"
  /\ isfinite(ret.out.f)
  /\ _log_prior(s_free, prior[s_model], value[s_model], ret.x).out.f # Fin(0)
  /\ _log_like(s_data, value[s_model]).out.f # Fin(0)
  /\ \E p \in Params : ~free[s_model][p]

\* what the datasets a _log_like call reached answer at the live parameters
Answers(log) ==
  [k \in 1..Len(LikeCalls(log)) |-> get_log_like(LikeCalls(log)[k].d, value[s_model])]

\* C5: in _log_like a ModelAssertionViolation raised by a dataset becomes the
\* return value -infinity, and any other exception a dataset raises is the
\* outcome of the call, unchanged.
C5_ExceptionPolicy ==
  ret.op = "_log_like" =>
    \A k \in 1..Len(Answers(ret.log)) :
       LET r == Answers(ret.log)[k] IN
         r.t = "raise" =>
           IF r.e = "ModelAssertionViolation"
           THEN ret.out = Value(NegInf)
           ELSE ret.out = r

\* a _log_like call whose second dataset raised an exception that is not a
\* ModelAssertionViolation
C5_Witness ==
  /\ ret.op = "_log_like"
  /\ Len(LikeCalls(ret.log)) = 2
  /\ Answers(ret.log)[2].t = "raise"
  /\ Answers(ret.log)[2].e # "ModelAssertionViolation"
  /\ ret.out.t = "raise"

\* C6: _log_like never returns NaN or +infinity; when no dataset raises it
\* returns -infinity if the sum of the datasets' values is not finite and
\* that sum otherwise.
C6_FiniteOrNegInf ==
  ret.op = "_log_like" =>
    /\ ret.out.t = "value" => ret.out.f.k \in {"fin", "ninf"}
    /\ (\A k \in 1..Len(s_data) : get_log_like(s_data[k], value[s_model]).t = "value") =>
         LET total == np_sum([k \in 1..Len(s_data) |->
                               get_log_like(s_data[k], value[s_model]).f])
         IN ret.out = IF isfinite(total) THEN Value(total) ELSE Value(NegInf)

\* a _log_like call over datasets whose values sum to NaN or +infinity
C6_Witness ==
  /\ ret.op = "_log_like"
  /\ \A k \in 1..Len(s_data) : get_log_like(s_data[k], value[s_model]).t = "value"
  /\ np_sum([k \in 1..Len(s_data) |-> get_log_like(s_data[k], value[s_model]).f]).k
        \in {"nan", "pinf"}
  /\ ret.out = Value(NegInf)

\* the orderings of a data list
Orderings(dl) ==
  {o \in [1..Len(dl) -> {dl[i] : i \in 1..Len(dl)}] :
     \A i, j \in 1..Len(dl) : i # j => o[i] # o[j]}

\* C9 as stated: for a fixed model state and any trial vector, the outcome
\* of get_posterior is the same for every ordering of the data list.
C9_AnyOrdering ==
  ret.op = "get_posterior" =>
    \A o \in Orderings(s_data) :
       get_posterior(s_free, o, prior[s_model], value[s_model], ret.x).out = ret.out

\* the datasets of the list that raise at vals
Raisers(dl, vals) == {d \in {dl[i] : i \in 1..Len(dl)} : get_log_like(d, vals).t = "raise"}

RECURSIVE IntSum(_)
IntSum(S) == IF S = {} THEN 0 ELSE LET d == CHOOSE d \in S : TRUE IN d[2] + IntSum(S \ {d})

\* the finite values of the list at vals add up without rounding or overflow
\* in every order
AddsExactly(dl, vals) ==
  LET fin == {<<d, get_log_like(d, vals).f.v>> :
                d \in {e \in {dl[i] : i \in 1..Len(dl)} : get_log_like(e, vals).f.k = "fin"}}
  IN \A S \in SUBSET fin : Representable(IntSum(S))

\* C9: the outcome of get_posterior is the same for every ordering of the
\* data list when at most one dataset raises, or all that raise raise
\* ModelAssertionViolation, and the datasets' values add up without rounding
\* or overflow.
C9_OrderingWhenCompatible ==
  ret.op = "get_posterior" =>
    LET vals == Bound(value[s_model], ret.x)
        rs == Raisers(s_data, vals)
    IN (/\ Cardinality(rs) <= 1
           \/ \A d \in rs : get_log_like(d, vals).e = "ModelAssertionViolation"
        /\ AddsExactly(s_data, vals)) =>
       \A o \in Orderings(s_data) :
          get_posterior(s_free, o, prior[s_model], value[s_model], ret.x).out = ret.out

\* an in-support get_posterior call over three datasets that returned a
\* finite value
C9_Witness ==
  /\ ret.op = "get_posterior"
  /\ ~ZeroPrior(ret.x)
  /\ Len(s_data) = 3
  /\ Raisers(s_data, value[s_model]) = {}
  /\ AddsExactly(s_data, value[s_model])
  /\ ret.out.t = "value"
  /\ isfinite(ret.out.f)

(***************************************************************************)
(* Properties of registration (SpecReg).                                   *)
(***************************************************************************)
\* the sampler a registration starts from: this one (set_model_and_data) or a
\* new one (the constructor)
Starts == {RegState, Fresh(RegState)}

Events(log, ev) == SelectSeq(log, LAMBDA e : e.ev = ev)

\* C3: when a free parameter of the model has no prior, registration raises
\* with no set_model call, no nuisance parameter added, and the sampler's
\* model, data list and registered flag as they were.
C3_MissingPriorFailsFirst ==
  /\ \A m \in Models, dl \in DataLists(RegPool) :
       free_lacks_prior(prior[m], free[m], ext[m]) =>
         \A st \in Starts :
            LET r == _register_model_and_data(st, prior, free, m, dl)
            IN r.out.t = "raise" /\ r.log = <<>> /\ r.st = st
  /\ (ret.op \in {"set_model_and_data", "__init__"} /\ ret.out = Raise("RuntimeError", "")) =>
       /\ ret.log = <<>>
       /\ ret.op = "__init__" => (s_model = "None" /\ ~s_registered)

\* a registered sampler whose last set_model_and_data, with another model and
\* a non-empty data list, failed on a missing prior
C3_Witness ==
  /\ ret.op = "set_model_and_data"
  /\ ret.out = Raise("RuntimeError", "")
  /\ ret.dl # <<>>
  /\ s_registered
  /\ s_model # ret.m
  /\ s_data # ret.dl

\* C4: when a dataset of the list has a nuisance parameter whose name does
\* not contain the dataset's name, registration raises, that parameter is
\* never added to the model and the call does not set the registered flag.
C4_BadNuisanceName ==
  \A m \in Models, dl \in DataLists(RegPool) :
    \A i \in 1..Len(dl) :
      \A j \in 1..Len(nuisance_parameters(dl[i])) :
        LET n == nuisance_parameters(dl[i])[j].name IN
        ~Contains(n, DsName(dl[i])) =>
          \A st \in Starts :
             LET r == _register_model_and_data(st, prior, free, m, dl) IN
             /\ r.out.t = "raise"
             /\ \A k \in 1..Len(r.log) : r.log[k] # AddEv(dl[i], n)
             /\ r.st.registered = st.registered

\* a set_model_and_data call that stopped at the offending parameter of the
\* second dataset of its list
C4_Witness ==
  /\ ret.op = "set_model_and_data"
  /\ ret.out = Raise("AssertionError", "")
  /\ Len(ret.dl) >= 2
  /\ ret.dl[2] = "D"
  /\ ~s_registered
  /\ Events(ret.log, "add_external_parameter") # <<>>

(***************************************************************************)
(* Properties of the unit-cube closures (SpecCube).                        *)
(***************************************************************************)
\* some free parameter of the model has a prior without from_unit_cube
LacksTransform ==
  \E p \in Params : free[s_model][p] /\ ~has_from_unit_cube(prior[s_model][p])

\* C7 as stated: for both values of return_copy, when a free parameter's prior
\* has no from_unit_cube, _construct_unitcube_posterior itself raises and
\* returns no closures.
C7_DryRunBothVariants ==
  (ret.op = "_construct_unitcube_posterior" /\ LacksTransform) => ret.out.t = "raise"

(***************************************************************************)
(* Properties of the products of a sampling run (SpecRes).                 *)
(***************************************************************************)
\* every free parameter's live value is the median of its column of the raw
\* sample matrix
AtMedians ==
  \A i \in 1..Len(s_free) :
     value[s_model][s_free[i]] = median(Column(s_raw_samples.v, i))

C10_ZeroPolynomial ==
  (pf.out.t # "none" /\ \A i \in 1..Len(pf.y) : pf.y[i] = 0) =>
     /\ pf.out.t = "value"
     /\ pf.polynomial.params = <<Q(0, 1)>>
     /\ pf.polynomial.degree = 0
     /\ pf.minlogLikelihood = Fin(0)
     /\ pf.ran = {}

\* a call with three empty bins that asked for degree 3
C10_Witness ==
  /\ pf.out.t = "value"
  /\ Len(pf.y) = 3
  /\ \A i \in 1..Len(pf.y) : pf.y[i] = 0
  /\ pf.polGrade = 3
  /\ pf.polynomial.degree = 0

(***************************************************************************)
(* Properties of the choice of the degree (SpecGrade).                     *)
(***************************************************************************)
\* C11 as stated: the degree returned is the largest g+1 whose statistic
\* 2*(logLike[g] - logLike[g+1]) exceeds 9.0, whatever the lower statistics
\* are, and 0 when none exceeds 9.0; it is always in 0..4.
C11_LastCrossingAbove ==
  fg.bestGrade # -1 =>
    LET above == {i \in 1..maxGrade :
                    fg.logLikelihoods[i] - fg.logLikelihoods[i + 1] > deltaThreshold}
    IN /\ fg.bestGrade \in 0..maxGrade
       /\ fg.bestGrade = IF above = {} THEN 0 ELSE CHOOSE i \in above : \A j \in above : j <= i

\* C11: the degree returned is the largest g+1 whose statistic
\* 2*(logLike[g] - logLike[g+1]) is at least 9.0, whatever the lower
\* statistics are, and 0 when none is; it is always in 0..4.
C11_LastCrossingAtLeast ==
  fg.bestGrade # -1 =>
    LET reached == {i \in 1..maxGrade :
                      fg.logLikelihoods[i] - fg.logLikelihoods[i + 1] >= deltaThreshold}
    IN /\ fg.bestGrade \in 0..maxGrade
       /\ \A i \in reached : i <= fg.bestGrade
       /\ fg.bestGrade \in reached \cup {0}
       /\ reached = {} => fg.bestGrade = 0

\* a choice of degree 3 whose statistic is exactly 9.0, above a statistic
\* that does not reach the threshold and one that exceeds it
C11_Witness ==
  /\ fg.bestGrade = 3
  /\ fg.logLikelihoods[3] - fg.logLikelihoods[4] = deltaThreshold
  /\ fg.logLikelihoods[2] - fg.logLikelihoods[3] < deltaThreshold
  /\ fg.logLikelihoods[1] - fg.logLikelihoods[2] > deltaThreshold

(***************************************************************************)
(* Properties of the Cash statistic (SpecCash).                            *)
(***************************************************************************)
\* the value the model takes in bin i at the parameters of the last call
ModelValue(i) == horner(cash.parameters, cash.x[i])

\* the bins without counts
EmptyBins == {i \in 1..Len(cash.y) : cash.y[i] = 0}

\* C12 as stated: a bin with D_i = 0 contributes exactly its model value,
\* with negative values clamped to 0, and a D_i log(M_i) term of exactly 0
C12_EmptyBinAddsModelValue ==
  cash.called =>
    \A i \in EmptyBins :
      /\ cash.terms[i].M = IF ModelValue(i) < 0 THEN 0 ELSE ModelValue(i)
      /\ cash.terms[i].d_times_logM = [d |-> 0, logM |-> NoLog]

\* C12: a bin with D_i = 0 contributes a D_i log(M_i) term of exactly 0,
\* whatever M_i is, and its model value after clamping and precision
\* fixing: 0 when M_i <= 0, tiny when 0 < M_i <= tiny, and M_i above tiny;
\* no logarithm enters the result through such a bin
C12_EmptyBinAddsFixedModelValue ==
  cash.called =>
    \A i \in EmptyBins :
      /\ cash.terms[i].M = IF ModelValue(i) <= 0 THEN 0
                           ELSE IF ModelValue(i) <= tiny THEN tiny
                           ELSE ModelValue(i)
      /\ cash.terms[i].M >= 0
      /\ cash.terms[i].d_times_logM = [d |-> 0, logM |-> NoLog]

\* a call where bins without counts have a negative model value, a model
\* value of 0 and a positive model value below tiny, next to a bin with
\* counts
C12_Witness ==
  /\ cash.called
  /\ \E i \in EmptyBins : ModelValue(i) < 0
  /\ \E i \in EmptyBins : ModelValue(i) = 0
  /\ \E i \in EmptyBins : ModelValue(i) > 0 /\ ModelValue(i) < tiny
  /\ \E i \in 1..Len(cash.y) : cash.y[i] > 0

C14_CovarianceFailureRaises ==
  /\ (pf.out # None /\ pf.cov \in {"singular", "negative"}) =>
       /\ pf.out.t = "raise"
       /\ pf.out.e = IF pf.cov = "singular" THEN "Exception" ELSE "RuntimeError"
       /\ pf.polynomial = NoFit.polynomial
       /\ pf.minlogLikelihood = NoFit.minlogLikelihood
  /\ pf.out.t = "value" => pf.cov \in {"", "ok"}

\* a per-channel fit of degree 1 on bins with counts whose covariance
\* matrix had a negative diagonal entry
C14_Witness ==
  /\ pf.caller = "_fitChannel"
  /\ pf.cov = "negative"
  /\ pf.out.t = "raise"
  /\ pf.polGrade = 1
  /\ Len(pf.initialGuess) = 2

(***************************************************************************)
(* Properties of a Polynomial (SpecPolynomial).                            *)
(***************************************************************************)
\* C15 as stated: after any sequence of Polynomial construction, setParams
\* and computeCovarianceMatrix calls, the number of coefficients is
\* degree + 1 and the covariance matrix has degree + 1 rows of degree + 1
\* entries.
C15_ShapeInvariant ==
  poly.op # "" =>
    LET p == poly.polynomial
    IN /\ Len(p.params) = p.degree + 1
       /\ Len(p.params) = getNumFreeParams(p)
       /\ Len(p.covMatrix) = p.degree + 1
       /\ \A i \in 1..Len(p.covMatrix) : Len(p.covMatrix[i]) = p.degree + 1

\* C18 as stated: the covariance matrix of a Polynomial is all zeros until a
\* computeCovarianceMatrix call succeeds, and a computeCovarianceMatrix call
\* that fails leaves the stored matrix as it was.
C18_StoredOnlyOnSuccess ==
  LET p == poly.polynomial
  IN /\ (poly.op # "" /\ ~poly.succeeded) =>
          \A i \in 1..Len(p.covMatrix) : \A j \in 1..Len(p.covMatrix[i]) :
            p.covMatrix[i][j] = Num(0, 1, 0)
     /\ (poly.op = "computeCovarianceMatrix" /\ poly.out.t = "raise") =>
          p.covMatrix = poly.before

(***************************************************************************)
(* Properties of sequences of registrations (SpecReg).                     *)
(***************************************************************************)
\* C16 as stated: through any sequence of registration calls the model and
\* the data list of the sampler are those of the most recent successful
\* call, a call that succeeds binding its own arguments and setting the
\* registered flag and a call that fails leaving the binding as it was, and
\* registering what is registered already changes nothing.
C16_BindingOfLastSuccess ==
  [][
      /\ ret'.out.t # "raise" =>
           /\ s_model' = ret'.m
           /\ s_data' = ret'.dl
           /\ s_registered'
      /\ ret'.out.t = "raise" =>
           /\ s_model' = s_model
           /\ s_data' = s_data
           /\ s_registered' = s_registered
      /\ (ret'.out.t # "raise" /\ s_registered /\ s_model = ret'.m /\ s_data = ret'.dl) =>
           RegState' = RegState
  ]_vars

(***************************************************************************)
(* Properties of the reduction of the degree (SpecPoly).                   *)
(***************************************************************************)
\* the degrees of freedom of a fit of this degree to the bins of pf
DegreesOfFreedom(degree) == Nnonzero(pf.y) - (degree + 1)

\* C17 as stated: the guess _polyfit hands to fmin, and so the polynomial it
\* fits, has the largest degree not above the requested one that leaves at
\* least 2 degrees of freedom, and degree 0 when no degree does.
C17_LargestDegreeWithTwoDof ==
  pf.ran # {} =>
    LET enough == {g \in 0..pf.polGrade : DegreesOfFreedom(g) >= 2}
        degree == Len(pf.initialGuess) - 1
    IN /\ degree = IF enough = {} THEN 0 ELSE CHOOSE g \in enough : \A h \in enough : h <= g
       /\ pf.out.t = "value" => pf.polynomial.degree = degree

(***************************************************************************)
(* Properties of _build_results (SpecRes).                                 *)
(***************************************************************************)
\* the row of the raw sample matrix whose log-probability is the largest,
\* the first of them on ties
MAPRow ==
  LET logp == s_log_probability_values.v
      idx == CHOOSE i \in 1..Len(logp) :
               /\ \A j \in 1..Len(logp) : logp[j].v <= logp[i].v
               /\ \A j \in 1..(i - 1) : logp[j].v # logp[i].v
  IN s_raw_samples.v[idx]

\* the parameters of the model with the free ones at point
AtPoint(point) ==
  [p \in Params |->
     IF \E i \in 1..Len(s_free) : s_free[i] = p
     THEN point[CHOOSE i \in 1..Len(s_free) : s_free[i] = p]
     ELSE value[s_model][p]]

\* the sum of the log-priors of the first i free parameters at point
RECURSIVE SumLogPrior(_, _)
SumLogPrior(point, i) ==
  IF i = 0 THEN Fin(0)
  ELSE FAdd(SumLogPrior(point, i - 1),
            log10(PriorDensity(prior[s_model][s_free[i]], point[i])))

\* the log-prior at point: -inf outside the support of a prior
LogPriorAt(point) ==
  IF \E i \in 1..Len(s_free) : PriorDensity(prior[s_model][s_free[i]], point[i]) = 0
  THEN NegInf
  ELSE SumLogPrior(point, Len(s_free))

\* the recorded log-posteriors are those of the datasets at point
RecordedAt(point) ==
  /\ Len(s_results.log_posteriors) = Len(s_data)
  /\ \A k \in 1..Len(s_data) :
       s_results.log_posteriors[k] =
         <<DsName(s_data[k]),
           FAdd(get_log_like(s_data[k], AtPoint(point)).f, LogPriorAt(point))>>

\* _build_results has just built the results
Built == ret.op = "_build_results" /\ ret.out = None

RECURSIVE Total(_, _)
Total(pairs, k) == IF k = 0 THEN Fin(0) ELSE FAdd(Total(pairs, k - 1), pairs[k][2])

RECURSIVE DataPoints(_, _)
DataPoints(dl, k) ==
  IF k = 0 THEN 0 ELSE DataPoints(dl, k - 1) + get_number_of_data_points(dl[k])

\* C20: in the results of _build_results the log-posterior of each dataset is
\* its own log-likelihood at the MAP point plus the whole log-prior at the MAP
\* point, the total log-posterior is the sum of these values, so that the
\* log-prior enters it once per dataset, and the total number of data points
\* is the sum of the datasets' numbers of data points.
C20_PerDatasetAndTotals ==
  s_results.set =>
    LET log_prior == LogPriorAt(MAPRow)
        like(k) == get_log_like(s_data[k], AtPoint(MAPRow)).f
    IN /\ Len(s_results.log_posteriors) = Len(s_data)
       /\ \A k \in 1..Len(s_data) :
            s_results.log_posteriors[k][2] = FAdd(like(k), log_prior)
       /\ s_results.total_log_posterior = Total(s_results.log_posteriors, Len(s_data))
       /\ s_results.total_n_data_points = DataPoints(s_data, Len(s_data))
       /\ s_results.n_free = Len(s_free)

\* results of two datasets with finite log-likelihoods and a log-prior that
\* is not 0, so that the total holds it twice
C20_Witness ==
  /\ s_results.set
  /\ Len(s_data) = 2
  /\ LogPriorAt(MAPRow).k = "fin"
  /\ LogPriorAt(MAPRow).v # 0
  /\ \A k \in 1..2 : get_log_like(s_data[k], AtPoint(MAPRow)).f.k = "fin"
  /\ s_results.total_log_posterior.k = "fin"
  /\ s_results.total_n_data_points = 4

(***************************************************************************)
(* Properties of the closures of the unit-cube samplers (SpecCube).        *)
(***************************************************************************)
\* C21: the loglike closure called with the vector v assigns v[i] to the i-th
\* free parameter for every i, in the order of the free parameters and
\* whatever the priors' supports, before any dataset is evaluated, and what it
\* returns or raises is what _log_like does at these values: the summed
\* log-likelihood or -infinity, no prior term added
C21_LogLikeClosure ==
  ret.op = "loglike" =>
    /\ \A i \in 1..Len(s_free) : value[s_model][s_free[i]] = ret.x[i]
    /\ SubSeq(ret.log, 1, Len(s_free)) = [i \in 1..Len(s_free) |-> SetEv(s_free[i], ret.x[i])]
    /\ \A k \in (Len(s_free) + 1)..Len(ret.log) : ret.log[k].ev = "get_log_like"
    /\ ret.out = _log_like(s_data, value[s_model]).out
    /\ ret.out.t = "value" =>
         \/ ret.out.f = NegInf
         \/ ret.out.f = np_sum([i \in 1..Len(s_data) |-> get_log_like(s_data[i], value[s_model]).f])

\* a call with a value outside its prior's support that returns a finite
\* log-likelihood
C21_Witness ==
  /\ ret.op = "loglike"
  /\ ZeroPrior(ret.x)
  /\ ret.out.t = "value"
  /\ isfinite(ret.out.f)
  /\ \E i \in 1..Len(s_free) : ret.x[i] # 1

\* the vector whose entry i is the i-th free parameter's from_unit_cube of
\* entry i of cube
Transformed(cube) ==
  [i \in 1..Len(s_free) |-> from_unit_cube(prior[s_model][s_free[i]], cube[i])]

\* C22: a call of either prior closure that does not raise computes, for
\* entry i, the i-th free parameter's from_unit_cube of entry i of the cube;
\* the closure of return_copy = True returns them in a new vector and leaves
\* the caller's cube as it was, the closure of return_copy = False leaves them
\* in the caller's vector and returns nothing; no call of either changes a
\* live parameter value
C22_PriorTransforms ==
  [][ret'.op = "prior" =>
       /\ value' = value
       /\ closure' = "copy" => ret'.x = ret'.arg
       /\ ret'.out.t # "raise" =>
            /\ closure' = "copy" =>
                 ret'.res = Transformed(ret'.arg) /\ ret'.out = Value(Fin(0))
            /\ closure' = "in_place" =>
                 ret'.x = Transformed(ret'.arg) /\ ret'.res = <<>> /\ ret'.out = None]_vars

\* a call of the closure of return_copy = False that overwrote an entry of
\* its argument
C22_Witness ==
  /\ ret.op = "prior"
  /\ closure = "in_place"
  /\ ret.out = None
  /\ ret.x = Transformed(ret.arg)
  /\ ret.x # ret.arg

\* a <= b
NLeq(a, b) == ~NLess(b, a)

\* C23: for every parameter index computeCovarianceMatrix makes at least one
\* and at most max_iters iterations of the step adjustment, every step it
\* uses lies within [min_step, max_step], and a parameter whose step never
\* converges still has its row of the Hessian filled with the central
\* difference, the parameters after it being processed as well, so that the
\* call ends (returning the covariance or raising on a singular Hessian)
C23_BoundedStepAdjustment ==
  cm.out # None =>
    /\ Len(cm.hess) = Len(cm.par)
    /\ Len(cm.iters) = Len(cm.par)
    /\ \A i \in 1..Len(cm.par) :
         /\ 1 <= cm.iters[i]
         /\ cm.iters[i] <= cm.max_iters
         /\ Len(cm.used[i]) = cm.iters[i]
         /\ \A k \in 1..Len(cm.used[i]) :
              NLeq(cm.min_step, cm.used[i][k]) /\ NLeq(cm.used[i][k], max_step)
         /\ cm.converged[i] \/ cm.iters[i] = cm.max_iters
         /\ Len(cm.hess[i]) = Len(cm.par)
         /\ LET g == Gradient(cm.H, cm.J, cm.par)
                up == grad(g, [cm.par EXCEPT ![i] = NAdd(@, cm.di[i])])
                dn == grad(g, [cm.par EXCEPT ![i] = NSub(@, cm.di[i])])
            IN \A k \in 1..Len(cm.par) :
                 NMul(cm.hess[i][k], NMul(Num(2, 1, 0), cm.di[i])) = NSub(up[k], dn[k])

\* the first parameter used up its iterations at different steps without
\* converging, and the second was processed after it
C23_Witness ==
  /\ cm.out # None
  /\ Len(cm.par) = 2
  /\ cm.max_iters > 1
  /\ ~cm.converged[1]
  /\ cm.iters[1] = cm.max_iters
  /\ cm.used[1][1] # cm.used[1][2]
  /\ cm.converged[2]
  /\ cm.hess[1][1] # Zero
  /\ cm.hess[2] = cm.H[2]

(***************************************************************************)
(* get_posterior called by two threads on the one sampler: each thread is  *)
(* at a statement of get_posterior or of _log_like, and the live values of *)
(* the model's parameters are shared.                                       *)
(***************************************************************************)
\* the live values of the free parameters are the vector x
LiveAt(x) == \A i \in 1..Len(s_free) : value[s_model][s_free[i]] = x[i]

\* return log_like + log_prior, with the sum of the priors left out
posterior_return_likelihood(log_like, log_prior) == Value(log_like)

\* return log_like + log_prior
posterior_return(log_like, log_prior) == Value(FAdd(log_like, log_prior))

\* thread t calls get_posterior(x): the assertion on the lengths and
\* log_prior = 0
Enter(t, x) ==
  /\ th[t].pc = "idle"
  /\ s_model # "None"
  /\ th' = [th EXCEPT ![t] = [NoThread EXCEPT !.pc = IF s_free = <<>> THEN "like" ELSE "prior",
                                              !.x = x, !.i = 1]]
  /\ UNCHANGED <<sampler, pf, fg, cash, cm, poly>>

\* thread t makes one pass of the loop over the free parameters
PriorStep(t) ==
  /\ th[t].pc = "prior"
  /\ LET me == th[t]
         p == s_free[me.i]
         prior_value == PriorDensity(prior[s_model][p], me.x[me.i])
     IN IF prior_value = 0
        THEN /\ th' = [th EXCEPT ![t].pc = "done", ![t].out = Value(NegInf)]
             /\ UNCHANGED value
        ELSE /\ value' = [value EXCEPT ![s_model][p] = me.x[me.i]]
             /\ th' = [th EXCEPT ![t].log_prior = FAdd(@, log10(prior_value)),
                                 ![t].i = IF me.i = Len(s_free) THEN 1 ELSE me.i + 1,
                                 ![t].pc = IF me.i = Len(s_free) THEN "like" ELSE "prior"]
  /\ UNCHANGED <<prior, free, ext, dsModel, s_model, s_data, s_registered, s_free, closure,
                 chain, ret, pf, fg, cash, cm, poly>>

\* thread t evaluates one dataset of the list comprehension of _log_like
LikeStep(t) ==
  /\ th[t].pc = "like"
  /\ th[t].i <= Len(s_data)
  /\ LET me == th[t]
         r == get_log_like(s_data[me.i], value[s_model])
         seen == me.foreign \/ ~LiveAt(me.x)
     IN th' = IF r.t = "raise"
              THEN [th EXCEPT ![t].pc = "done", ![t].foreign = seen,
                              ![t].out = IF r.e = "ModelAssertionViolation"
                                         THEN posterior_return(NegInf, me.log_prior)
                                         ELSE r]
              ELSE [th EXCEPT ![t].values = Append(@, r.f), ![t].i = me.i + 1,
                              ![t].foreign = seen]
  /\ UNCHANGED <<sampler, pf, fg, cash, cm, poly>>

\* thread t sums the values, tests the sum and returns from _log_like and
\* from get_posterior
ReturnStep(t) ==
  /\ th[t].pc = "like"
  /\ th[t].i > Len(s_data)
  /\ LET me == th[t]
         log_like == np_sum(me.values)
     IN th' = [th EXCEPT ![t].pc = "done",
                         ![t].out = posterior_return(IF isfinite(log_like) THEN log_like
                                                     ELSE NegInf, me.log_prior)]
  /\ UNCHANGED <<sampler, pf, fg, cash, cm, poly>>

InitThreads ==
  /\ RegisteredOn({0, 2}, {<<"A", "C">>, <<"B", "C">>}, {""}, {1})
  /\ closure = "none"
  /\ NoChain
  /\ NoFitter

NextThreads ==
  \/ \E t \in Threads, x \in TrialVectors : Enter(t, x)
  \/ \E t \in Threads : PriorStep(t)
  \/ \E t \in Threads : LikeStep(t)
  \/ \E t \in Threads : ReturnStep(t)

SpecThreads == InitThreads /\ [][NextThreads]_vars

(***************************************************************************)
(* Properties of concurrent posterior evaluation (SpecThreads).            *)
(***************************************************************************)
\* what the call of thread t returns or raises when no other call
\* interleaves with it
Sequential(t) ==
  get_posterior(s_free, s_data, prior[s_model], value[s_model], th[t].x).out

\* C24: two calls of get_posterior that interleave on one model are not
\* safe: a call whose datasets all saw the live values at its own trial
\* vector returns its sequential result, and only a call that evaluated a
\* dataset while the live values were not its trial vector can differ from
\* it (the witness is such a call, so the interleaving exists)
C24_DiffersOnlyByForeignValues ==
  \A t \in Threads :
    (th[t].pc = "done" /\ ~th[t].foreign) => th[t].out = Sequential(t)

\* two calls with different trial vectors in the priors' supports, of which
\* one evaluated a dataset at values that were not its own and returned a
\* value that is not its sequential result
C24_Witness ==
  \E t, u \in Threads :
    /\ t # u
    /\ th[t].pc = "done"
    /\ th[u].pc # "idle"
    /\ th[t].x # th[u].x
    /\ ~ZeroPrior(th[t].x)
    /\ ~ZeroPrior(th[u].x)
    /\ th[t].foreign
    /\ th[t].out.t = "value"
    /\ Sequential(t).t = "value"
    /\ isfinite(Sequential(t).f)
    /\ th[t].out # Sequential(t)

(***************************************************************************)
(* The free parameters of the model change after registration: the user    *)
(* fixes and frees parameters between the evaluations of the posterior.    *)
(***************************************************************************)
\* sampler._update_free_parameters()
UpdateFreeParameters ==
  /\ s_model # "None"
  /\ s_free' = free_parameters(free[s_model])
  /\ ret' = Call("_update_free_parameters", s_model, s_data, <<>>, None, <<>>)
  /\ UNCHANGED <<prior, free, value, ext, dsModel, s_model, s_data, s_registered, closure,
                 chain, fitter>>

\* a registered sampler whose free parameters were updated once
InitFree ==
  /\ RegisteredOn(0..2, {<<"A", "C">>}, {"", "K"}, {1})
  /\ closure = "none"
  /\ NoChain
  /\ NoFitter

NextFree ==
  \/ \E p \in Params, b \in BOOLEAN : SetFree(p, b)
  \/ UpdateFreeParameters
  \/ \E x \in TrialVectors : GetPosterior(x)
  \/ \E x \in TrialVectors : LogPrior(x)

SpecFree == InitFree /\ [][NextFree]_vars

(***************************************************************************)
(* Properties of the free-parameter set (SpecFree).                        *)
(***************************************************************************)
\* C25: the free parameters an evaluation of get_posterior or of _log_prior
\* works on are the model's current free parameters, in the model's order,
\* also after the user has fixed or freed a parameter
C25_CurrentFreeParameters ==
  ret.op \in {"get_posterior", "_log_prior"} =>
    /\ s_free = free_parameters(free[s_model])
    /\ \A k \in 1..Len(ret.log) :
         ret.log[k].ev = "set" => free[s_model][ret.log[k].p]

(***************************************************************************)
(* Properties of the order of a posterior evaluation (SpecPost).           *)
(***************************************************************************)
\* C26: a call of get_posterior whose trial values are all in the support
\* of their priors assigns every free parameter its trial value, in the
\* order of the free parameters, before the first get_log_like of a
\* dataset, and assigns nothing from then on, so that every dataset is
\* evaluated at the trial vector
C26_AssignedBeforeEvaluated ==
  (ret.op = "get_posterior" /\ ~ZeroPrior(ret.x)) =>
    /\ Len(ret.log) >= Len(s_free)
    /\ SubSeq(ret.log, 1, Len(s_free)) = [i \in 1..Len(s_free) |-> SetEv(s_free[i], ret.x[i])]
    /\ \A k \in (Len(s_free) + 1)..Len(ret.log) : ret.log[k].ev = "get_log_like"
    /\ \A i \in 1..Len(s_free) : value[s_model][s_free[i]] = ret.x[i]

\* a call in the supports with two free parameters, of which one got a new
\* value, that evaluated two datasets
C26_Witness ==
  /\ ret.op = "get_posterior"
  /\ ~ZeroPrior(ret.x)
  /\ Len(s_free) = 2
  /\ ret.x[1] # ret.x[2]
  /\ Len(LikeCalls(ret.log)) >= 2
  /\ ret.log[Len(s_free) + 1].ev = "get_log_like"

(***************************************************************************)
(* Properties of the reseeded guess (SpecPoly).                            *)
(***************************************************************************)
\* C27: when the polynomial of the least-squares fit is negative somewhere
\* on x, the guess handed to the minimizer is positive in every entry,
\* whatever the mean of x
C27_ReseededGuessPositive ==
  (pf.out # None /\ pf.reseeded) =>
    \A j \in 1..Len(pf.initialGuess) :
      pf.initialGuess[j].k = "fin" /\ pf.initialGuess[j].n > 0

(***************************************************************************)
(* Properties of negative model values in the Cash statistic (SpecCash).   *)
(***************************************************************************)
\* C28: a bin whose model prediction is negative enters the Cash sum as a
\* prediction of 0, in the linear term and, where the bin has counts, in
\* the term of the logarithm (the extrapolation at 0); the logarithm itself
\* is taken of positive values only
C28_NegativeTreatedAsZero ==
  cash.called =>
    \A i \in 1..Len(cash.y) :
      /\ ModelValue(i) < 0 =>
           /\ cash.terms[i].M = 0
           /\ cash.y[i] > 0 => cash.terms[i].d_times_logM.logM = Extrapolated(0)
      /\ cash.terms[i].d_times_logM.logM.kind = "log" =>
           /\ cash.terms[i].d_times_logM.logM.of > 0
           /\ cash.terms[i].d_times_logM.logM.of = ModelValue(i)

\* a call with a negative prediction beyond tiny in a bin with counts, and
\* a bin with counts whose logarithm is taken
C28_Witness ==
  /\ cash.called
  /\ \E i \in 1..Len(cash.y) :
       /\ ModelValue(i) < -tiny
       /\ cash.y[i] > 0
       /\ cash.terms[i].M = 0
  /\ \E i \in 1..Len(cash.y) : cash.terms[i].d_times_logM.logM.kind = "log"

(***************************************************************************)
(* Properties of the live values after a short-circuit (SpecPost).         *)
(***************************************************************************)
\* the position of the first free parameter whose prior density is 0 at its
\* entry of x
FirstZero(x) ==
  CHOOSE k \in 1..Len(s_free) :
    /\ PriorDensity(prior[s_model][s_free[k]], x[k]) = 0
    /\ \A j \in 1..(k - 1) : PriorDensity(prior[s_model][s_free[j]], x[j]) # 0

\* C29: when get_posterior or _log_prior returns early because the k-th
\* free parameter is the first whose prior density is 0, the parameters
\* before position k have their trial values and the k-th and all later
\* ones (and whatever is not a free parameter) the values they had before
\* the call; no dataset was evaluated at this point
C29_MixedPointAfterShortCircuit ==
  [][(ret'.op \in {"get_posterior", "_log_prior"} /\ ZeroPrior(ret'.x)) =>
       LET k == FirstZero(ret'.x) IN
       /\ \A i \in 1..(k - 1) : value'[s_model][s_free[i]] = ret'.x[i]
       /\ \A p \in Params :
            (\A i \in 1..(k - 1) : s_free[i] # p) => value'[s_model][p] = value[s_model][p]
       /\ ret'.log = [i \in 1..(k - 1) |-> SetEv(s_free[i], ret'.x[i])]]_vars

\* a call of get_posterior cut short at the second parameter: the first has
\* its trial value, the second has not, and the two values differ
C29_Witness ==
  /\ ret.op = "get_posterior"
  /\ ZeroPrior(ret.x)
  /\ Len(s_free) = 2
  /\ FirstZero(ret.x) = 2
  /\ ret.log = <<SetEv(s_free[1], ret.x[1])>>
  /\ value[s_model][s_free[1]] = ret.x[1]
  /\ value[s_model][s_free[2]] # ret.x[2]
  /\ value[s_model][s_free[2]] # value[s_model][s_free[1]]

(***************************************************************************)
(* Properties of a registration that fails half-way (SpecReg).             *)
(***************************************************************************)
\* the position of the first nuisance parameter of dataset d whose name
\* does not contain the name of d; 0 when there is none
BadAt(d) ==
  LET ps == nuisance_parameters(d)
      bad == {j \in 1..Len(ps) : ~Contains(ps[j].name, DsName(d))}
  IN IF bad = {} THEN 0 ELSE CHOOSE j \in bad : \A h \in bad : j <= h

\* the position in dl of the first dataset with such a parameter
FailAt(dl) ==
  CHOOSE k \in 1..Len(dl) : BadAt(dl[k]) # 0 /\ \A i \in 1..(k - 1) : BadAt(dl[i]) = 0

\* the nuisance parameters the loops have passed when they fail at the k-th
\* dataset of dl
Passed(dl, k) ==
  {nuisance_parameters(dl[i])[j] :
     <<i, j>> \in {ij \in (1..k) \X (1..3) :
                    /\ ij[2] <= Len(nuisance_parameters(dl[ij[1]]))
                    /\ ij[1] < k \/ ij[2] < BadAt(dl[k])}}

\* C30: a registration that fails on the name of a nuisance parameter at
\* the k-th dataset is not undone: the sampler holds the new model and the
\* new data list, the first k datasets (the failing one among them) are
\* bound to the model and the later ones are not touched, the nuisance
\* parameters examined before the offending one are in the model (and
\* nothing else was added), and the registered flag is what it was before
C30_FailureNotAtomic ==
  [][ret'.out = Raise("AssertionError", "") =>
       LET dl == ret'.dl
           m == ret'.m
           k == FailAt(dl)
       IN /\ s_model' = m
          /\ s_data' = dl
          /\ \A i \in 1..k : dsModel'[dl[i]] = m
          /\ \A d \in DS : (\A i \in 1..k : dl[i] # d) => dsModel'[d] = dsModel[d]
          /\ ext' = [ext EXCEPT ![m] = @ \cup Passed(dl, k)]
          /\ s_registered' = s_registered]_vars

\* a sampler registered before, whose later registration failed at the
\* second parameter of the second dataset of its list: the new model and
\* list are stored, both datasets are bound, the parameters before the
\* offending one are in the model, and the flag is still set
C30_Witness ==
  /\ ret.out = Raise("AssertionError", "")
  /\ s_registered
  /\ Len(ret.dl) >= 2
  /\ FailAt(ret.dl) = 2
  /\ BadAt(ret.dl[2]) = 2
  /\ s_model = ret.m
  /\ s_data = ret.dl
  /\ dsModel[ret.dl[2]] = ret.m
  /\ nuisance_parameters(ret.dl[2])[1] \in ext[ret.m]
  /\ Passed(ret.dl, 2) # {}

====
